---- MODULE Spec2Model ----
(***************************************************************************)
(* A model of the calendar agent of UCSB-Hacks-XII:                        *)
(*   - the per-user burnout cache file, rewritten by the batch predictor   *)
(*     (calendar_agent.py, predict_burnout_batch_tool) and amended by the  *)
(*     voice check-in handler (api_server.py,                              *)
(*     analyze_mood_and_update_burnout);                                   *)
(*   - the schedule optimizer (calendar_agent.py, optimize_schedule_tool)  *)
(*     and its endpoint (api_server.py, optimize_schedule).                *)
(*                                                                         *)
(* Calendar dates are integers (days); a timestamp is a number of hours,   *)
(* HoursPerDay hours to the day.  The language model ("oracle") is the     *)
(* environment: its answers are drawn from bounded sets.                   *)
(***************************************************************************)
EXTENDS Integers, Sequences, FiniteSets, TLC

VARIABLES
    cache,                  \* user_data/<user>_burnout_cache.json
    clock,                  \* datetime.now(), a logical clock: one tick per request
    voice_checkin_context,  \* api_server.voice_checkin_context[user_id]
    resp,                   \* what the last cache request returned to its caller
    opt,                    \* one schedule-optimization request and its answer
    pr,                     \* one /api/burnout/predict request and its answer
    chain,                  \* one run of a model fallback chain: position and calls
    sweep,                  \* one free-slot computation: its events and slots
    norm,                   \* one pass of a tool over the records of provided_events
    inflight,               \* the cache requests being served at the same time
    scoring,                \* one oracle score on its way through the validation loop
    oracle_request,         \* the oracle requests of the last batch refresh
    dev                     \* start_dev.py: the supervisor, its servers and its position

vars == <<cache, clock, voice_checkin_context, resp, opt, pr, chain, sweep,
          norm, inflight, oracle_request, scoring, dev>>

\* today = datetime.now().date(): the day on which the requests are made
today == 0

(***************************************************************************)
(* Bounds of the model.                                                    *)
(***************************************************************************)
\* days_ahead: the length of the prediction window (14 in the requests of
\* api_server.py), scaled down
DaysAhead == 2
\* number of cache requests in one behaviour
MaxOps == 2
\* length of the list of matched events of one voice check-in
MaxMatched == 3

Min2(a, b) == IF a < b THEN a ELSE b
Max2(a, b) == IF a > b THEN a ELSE b

SetMin(S) == CHOOSE x \in S : \A y \in S : x <= y

Range(s) == {s[i] : i \in 1..Len(s)}

(***************************************************************************)
(* Burnout predictions                                                     *)
(***************************************************************************)
\* for i in range(days_ahead): today + i
date_range(t) == t..(t + DaysAhead - 1)

\* The oracle's "score" values: an integer, a float (in tenths), a string
\* that is no number, a float too large to convert (Infinity, 1e999), or no
\* "score" key at all.
IntScore(n) == [k |-> "int", v |-> n]
FloatScore(tenths) == [k |-> "float", v |-> tenths]
TextScore == [k |-> "text", v |-> 0]
InfScore == [k |-> "inf", v |-> 0]
NoScore == [k |-> "missing", v |-> 0]

\* JSON true/false: a bool is an int to isinstance(score, int), with the
\* value 1 or 0 in max, min, the comparisons and the sums
BoolScore(b) == [k |-> "bool", v |-> IF b THEN 1 ELSE 0]

\* faulty variant: the float is rounded to the nearest integer, halves up
round_tenths(v) == IF v >= 0 THEN (v + 5) \div 10 ELSE -((5 - v) \div 10)

\* int(float(x)) truncates towards zero
trunc_tenths(v) == IF v >= 0 THEN v \div 10 ELSE -((-v) \div 10)

\* faulty variant: the converted score is stored without max(0, min(100, .))
coerce_score_unclamped(raw) ==
    CASE raw.k \in {"int", "bool"} -> raw.v
      [] raw.k = "float" -> trunc_tenths(raw.v)
      [] OTHER -> 50

\* score = pred.get('score', 50); int(float(score)) unless an int; 50 on
\* ValueError/TypeError; then max(0, min(100, score))
coerce_score(raw) ==
    LET n == CASE raw.k \in {"int", "bool"} -> raw.v
               [] raw.k = "float" -> trunc_tenths(raw.v)
               [] OTHER -> 50
    IN  Max2(0, Min2(100, n))

\* int(float('inf')) raises OverflowError, which the except clause
\* (ValueError, TypeError) does not catch
score_raises(raw) == raw.k = "inf"

\* the thresholds of the batch predictor: <= 30 stable, <= 50 building,
\* <= 70 high-risk, else critical
status_of_score(score) ==
    IF score <= 30 THEN "stable"
    ELSE IF score <= 50 THEN "building"
    ELSE IF score <= 70 THEN "high-risk"
    ELSE "critical"

\* the thresholds of the voice handler: >= 70 critical, >= 50 high-risk,
\* >= 30 building, else stable
voice_status(new_score) ==
    IF new_score >= 70 THEN "critical"
    ELSE IF new_score >= 50 THEN "high-risk"
    ELSE IF new_score >= 30 THEN "building"
    ELSE "stable"

\* a prediction without a "date" (pred.get('date') is None or '')
NoDate == -1000

EmptyMap == [d \in {} |-> 0]

\* the loop "for pred in predictions" over the oracle's list: entries with
\* no date are skipped, a later entry for a date replaces an earlier one
RECURSIVE validate_predictions(_, _)
validate_predictions(preds, acc) ==
    IF preds = <<>> THEN acc
    ELSE LET pred == Head(preds)
             score == coerce_score(pred.score)
             entry == [score |-> score,
                       status |-> status_of_score(score),
                       reasoning |-> pred.reasoning]
         IN  IF pred.date = NoDate
             THEN validate_predictions(Tail(preds), acc)
             ELSE validate_predictions(Tail(preds),
                     [d \in (DOMAIN acc) \cup {pred.date} |->
                         IF d = pred.date THEN entry ELSE acc[d]])

\* an exception inside the loop is caught by the outer handler, before
\* anything is written
predictions_raise(preds) ==
    \E i \in 1..Len(preds) :
        preds[i].date # NoDate /\ score_raises(preds[i].score)

NoCache == [exists |-> FALSE, predictions |-> EmptyMap,
            cached_at |-> -1, voice_updated_at |-> -1]

\* faulty variant: the file is not read
load_burnout_cache_unread == EmptyMap

\* load_burnout_cache: the predictions of the file, {} without a file
load_burnout_cache == IF cache.exists THEN cache.predictions ELSE EmptyMap

(***************************************************************************)
(* What the environment can hand to the batch predictor                    *)
(***************************************************************************)
RawScores == {IntScore(25), IntScore(98)}

\* the dates the oracle may name: the requested window and the day after it
OracleDates(t) == t..(t + DaysAhead)

Pred(d, r) == [date |-> d, score |-> r, reasoning |-> "why"]

\* the oracle's lists in chronological order, any date left out
RECURSIVE AscLists(_, _)
AscLists(d, last) ==
    IF d > last THEN {<<>>}
    ELSE LET rest == AscLists(d + 1, last)
         IN  rest \cup {<<Pred(d, r)>> \o l : r \in RawScores, l \in rest}

\* ... and those lists behind an entry that has no date, a date named twice,
\* scores that are no integers, a score that cannot be converted, scores
\* outside 0..100, an entry without a score and a boolean score
PredLists(t) ==
    LET asc == AscLists(t, t + DaysAhead)
    IN  asc
        \cup {<<Pred(NoDate, IntScore(25))>> \o l : l \in {a \in asc : Len(a) <= 1}}
        \cup {<<Pred(t, IntScore(98)), Pred(t, IntScore(67))>>,
              <<Pred(t, TextScore), Pred(t + 1, FloatScore(706))>>,
              <<Pred(t, IntScore(25)), Pred(t + 1, InfScore)>>,
              <<Pred(t, IntScore(-5)), Pred(t + 1, IntScore(140))>>,
              <<Pred(t, NoScore), Pred(t + 1, BoolScore(TRUE))>>}

\* the answer of the model chain: no model answered, an answer that is no
\* JSON, or a JSON object with a "predictions" list
BatchOracle ==
    {[kind |-> "fail", preds |-> <<>>], [kind |-> "badjson", preds |-> <<>>]}
    \cup {[kind |-> "ok", preds |-> p] : p \in PredLists(today)}

\* matched_dates: the dates of the response's matched_events
NoResp == [op |-> "none", status |-> 0, is_stressed |-> FALSE,
           matched_dates |-> {}, burnout_adjustments |-> <<>>,
           predictions |-> EmptyMap]

\* the answer of the single-date model chain, before any request
NoSingle == [kind |-> "unused", score |-> NoScore]

\* no /api/burnout/predict request was made
NoPredict == [pc |-> "idle", date |-> NoDate, provided_events |-> FALSE,
              needs_refresh |-> FALSE, batch |-> "none", single |-> "none",
              batch_oracle |-> "unused", single_oracle |-> NoSingle,
              status |-> 0, cached |-> FALSE, score |-> 0, label |-> ""]

\* no model chain was started
NoChain == [op |-> "none", phase |-> "idle", i |-> 0, log |-> <<>>,
            result |-> "none"]

\* no free slots were computed
NoSweep == [pc |-> "idle", tool |-> "none", events |-> <<>>, duration |-> 0,
            free_slots_30 |-> <<>>, free_slots_90 |-> <<>>, free_slots |-> <<>>]

\* no pass over provided_events yet
NoNorm == [pc |-> "idle", tool |-> "none", records |-> <<>>, error |-> FALSE,
           events |-> <<>>]

\* the two request slots of the server
Procs == {1, 2}

\* no request being served
NoInflight == [p \in Procs |-> [pc |-> "idle", kind |-> "none"]]

\* len(SERVERS): Node.js backend, Flask API, Vite frontend, in this order
NumServers == 3
Servers == 1..NumServers
\* name == 'Vite Frontend': the last entry of SERVERS
Vite == NumServers

\* dev.existing[j]: the server that held port j before the script ran
\* dev.proc[j]: the process the script launched for entry j of SERVERS
\* dev.hangs[j]: that process does not stop within 5 seconds of SIGTERM
\* dev.terminated: the calls of proc.terminate(), in the order made
\* dev.reason: what called cleanup (a signal, a failed start, a dead server)
NoDev ==
    [pc |-> "idle", i |-> 0, force_restart |-> FALSE,
     existing |-> [j \in Servers |-> "none"],
     proc |-> [j \in Servers |-> "none"],
     hangs |-> [j \in Servers |-> FALSE],
     started_processes |-> <<>>, terminated |-> <<>>, killed |-> {},
     cleaned |-> FALSE, reason |-> "none"]

\* no score was handed to the validation loop
NoScoring == [pc |-> "idle", raw |-> NoScore, score |-> 0, status |-> ""]

\* no batch refresh yet
NoRequest == [count |-> 0, history |-> <<>>, days |-> <<>>]

(***************************************************************************)
(* predict_burnout_batch_tool                                              *)
(***************************************************************************)
\* the days of history given to the oracle (7), scaled down
HistoryDays == 2

\* "for i in range(1, 8): past_date = today - timedelta(days=i); if
\* past_date_str in previous_cache: recent_scores.append(...)": the cached
\* days among the HistoryDays days before today, the latest first
RECURSIVE recent_scores_from(_, _)
recent_scores_from(i, previous_cache) ==
    IF i > HistoryDays THEN <<>>
    ELSE (IF today - i \in DOMAIN previous_cache
          THEN <<[date |-> today - i,
                  score |-> previous_cache[today - i].score,
                  status |-> previous_cache[today - i].status]>>
          ELSE <<>>)
         \o recent_scores_from(i + 1, previous_cache)

\* list.sort(key=lambda x: x['date'])
RECURSIVE insert_by_date(_, _)
insert_by_date(entry, s) ==
    IF s = <<>> THEN <<entry>>
    ELSE IF Head(s).date <= entry.date
         THEN <<Head(s)>> \o insert_by_date(entry, Tail(s))
         ELSE <<entry>> \o s

RECURSIVE sort_by_date(_)
sort_by_date(s) ==
    IF s = <<>> THEN <<>>
    ELSE insert_by_date(s[Len(s)], sort_by_date(SubSeq(s, 1, Len(s) - 1)))

\* faulty variant: the history is left in the order of the loop
recent_scores_unsorted(previous_cache) == recent_scores_from(1, previous_cache)

\* "if recent_scores: recent_scores.sort(...)": the history of the prompt
recent_scores(previous_cache) == sort_by_date(recent_scores_from(1, previous_cache))

\* the one prompt of a batch refresh: the history, then the schedule of
\* every day of date_range
batch_request(previous_cache) ==
    [count |-> 1, history |-> recent_scores(previous_cache),
     days |-> [i \in 1..DaysAhead |-> today + i - 1]]

\* cache_data = {user_id, cached_at, sleep_time, wake_time, predictions}:
\* the file is replaced as a whole by the validated predictions
batch_file(validated, now, old) ==
    [exists |-> TRUE, predictions |-> validated,
     cached_at |-> now, voice_updated_at |-> -1]

predict_burnout_batch_tool(provided_events, oracle) ==
    /\ clock < MaxOps
    /\ clock' = clock + 1
    /\ UNCHANGED <<voice_checkin_context, opt, pr, chain, sweep, norm, inflight,
                 scoring,
                   dev>>
    /\ oracle_request' = IF provided_events THEN batch_request(load_burnout_cache)
                         ELSE NoRequest
    /\ IF \/ ~provided_events
          \/ oracle.kind # "ok"
          \/ predictions_raise(oracle.preds)
       THEN /\ cache' = cache
            /\ resp' = [NoResp EXCEPT !.op = "batch", !.status = 500]
       ELSE LET validated == validate_predictions(oracle.preds, EmptyMap)
            IN  /\ cache' = batch_file(validated, clock', cache)
                /\ resp' = [NoResp EXCEPT !.op = "batch", !.status = 200,
                                          !.predictions = validated]

(***************************************************************************)
(* /api/voice/transcribe and /api/voice/analyze-mood                       *)
(***************************************************************************)
\* voice_checkin_context[user_id] = {'transcript': transcript, ...}
voice_transcribe(transcript) ==
    /\ voice_checkin_context' = transcript
    /\ voice_checkin_context' # voice_checkin_context
    /\ UNCHANGED <<cache, clock, resp, opt, pr, chain, sweep,
                 norm, inflight, oracle_request,
                 scoring,
                   dev>>

\* sorted(date_counts.keys())
RECURSIVE sorted(_)
sorted(S) ==
    IF S = {} THEN <<>>
    ELSE LET m == SetMin(S) IN <<m>> \o sorted(S \ {m})

\* date_counts[date]['count']: the number of matched events on a date
date_count(matched_events, date) ==
    Cardinality({k \in 1..Len(matched_events) : matched_events[k] = date})

\* faulty variant: every matched date is weighted as the first one
adjustment_of_flat(i) == 5

\* adjustment = 5 if i == 0 else 3 (i counts from 1 here)
adjustment_of(i) == IF i = 1 THEN 5 ELSE 3

\* for i, date in enumerate(sorted_dates): only dates already in
\* predictions are touched; new_score = min(100, old_score + adjustment)
RECURSIVE apply_adjustments(_, _, _, _, _)
apply_adjustments(matched_events, sorted_dates, i, predictions, burnout_adjustments) ==
    IF i > Len(sorted_dates)
    THEN [predictions |-> predictions,
          burnout_adjustments |-> burnout_adjustments]
    ELSE LET date == sorted_dates[i]
             adjustment == adjustment_of(i)
         IN  IF date \in DOMAIN predictions
             THEN LET old_score == predictions[date].score
                      new_score == Min2(100, old_score + adjustment)
                  IN  apply_adjustments(matched_events, sorted_dates, i + 1,
                        [predictions EXCEPT ![date] =
                            [@ EXCEPT !.score = new_score,
                                      !.status = voice_status(new_score)]],
                        Append(burnout_adjustments,
                               [date |-> date,
                                events |-> date_count(matched_events, date),
                                old_score |-> old_score,
                                new_score |-> new_score,
                                adjustment |-> adjustment]))
             ELSE apply_adjustments(matched_events, sorted_dates, i + 1,
                                    predictions, burnout_adjustments)

\* the dates of the week's events the matcher may select
VoiceDates(t) == {t, t + 1, t + 2}

RECURSIVE SeqsUpTo(_, _)
SeqsUpTo(S, n) ==
    IF n = 0 THEN {<<>>}
    ELSE LET shorter == SeqsUpTo(S, n - 1)
         IN  shorter \cup {Append(s, x) : s \in shorter, x \in S}

MatchedLists == SeqsUpTo(VoiceDates(today), MaxMatched)

\* faulty variant: a matched date without a prediction is given one (score 50)
\* before the adjustments are applied
update_burnout_cache_creating(is_stressed, matched_events, predictions) ==
    IF is_stressed /\ matched_events # <<>>
    THEN apply_adjustments(matched_events, sorted(Range(matched_events)), 1,
            [d \in (DOMAIN predictions) \cup Range(matched_events) |->
                IF d \in DOMAIN predictions THEN predictions[d]
                ELSE [score |-> 50, status |-> "building", reasoning |-> ""]],
            <<>>)
    ELSE [predictions |-> predictions, burnout_adjustments |-> <<>>]

\* "if is_stressed and matched_events:" group the matched events by date,
\* sort the dates and adjust; otherwise nothing is adjusted
update_burnout_cache(is_stressed, matched_events, predictions) ==
    IF is_stressed /\ matched_events # <<>>
    THEN apply_adjustments(matched_events, sorted(Range(matched_events)), 1,
                           predictions, <<>>)
    ELSE [predictions |-> predictions, burnout_adjustments |-> <<>>]

\* faulty variant: the file is rewritten whether or not anything was adjusted
save_updated_cache_always(file, out, now) ==
    [file EXCEPT !.predictions = out.predictions, !.voice_updated_at = now]

\* "if burnout_adjustments:" cache_data['predictions'] = predictions and
\* cache_data['voice_updated_at'] = now; the other keys are kept
save_updated_cache(file, out, now) ==
    IF out.burnout_adjustments # <<>>
    THEN [file EXCEPT !.predictions = out.predictions,
                      !.voice_updated_at = now]
    ELSE file

\* faulty variant: the handler does not look for a stored check-in
analyze_mood_and_update_burnout_unchecked(is_stressed, matched_events) ==
    /\ clock < MaxOps
    /\ clock' = clock + 1
    /\ UNCHANGED <<voice_checkin_context, opt, pr, chain, sweep, norm, inflight,
                   oracle_request, scoring,
                   dev>>
    /\ LET out == update_burnout_cache(is_stressed, matched_events,
                                       load_burnout_cache)
       IN  /\ cache' = save_updated_cache(cache, out, clock')
           /\ resp' = [NoResp EXCEPT
                         !.op = "voice", !.status = 200,
                         !.is_stressed = is_stressed,
                         !.matched_dates = Range(matched_events),
                         !.burnout_adjustments = out.burnout_adjustments]

\* is_stressed and matched_events are the matcher's verdict on the
\* transcript: matched_events holds, in calendar order, the date of every
\* event of the week whose title was selected
analyze_mood_and_update_burnout(is_stressed, matched_events) ==
    /\ clock < MaxOps
    /\ clock' = clock + 1
    /\ UNCHANGED <<voice_checkin_context, opt, pr, chain, sweep,
                 norm, inflight, oracle_request,
                 scoring,
                   dev>>
    /\ IF voice_checkin_context = "none"
       THEN /\ cache' = cache
            /\ resp' = [NoResp EXCEPT !.op = "voice", !.status = 400]
       ELSE /\ LET out == update_burnout_cache(is_stressed, matched_events,
                                               load_burnout_cache)
               IN  /\ cache' = save_updated_cache(cache, out, clock')
                   /\ resp' = [NoResp EXCEPT
                                 !.op = "voice", !.status = 200,
                                 !.is_stressed = is_stressed,
                                 !.matched_dates = Range(matched_events),
                                 !.burnout_adjustments = out.burnout_adjustments]

(***************************************************************************)
(* The schedule optimizer                                                  *)
(***************************************************************************)
\* hours of a day (24), scaled down; a timestamp is a number of hours
HoursPerDay == 4

\* datetime.date()
date_of(t) == t \div HoursPerDay

\* A timestamp string of a calendar record: naive local time, a time with a
\* UTC marker or offset, a string that is no ISO timestamp, or none.
Naive(t) == [k |-> "naive", t |-> t]
Utc(t) == [k |-> "utc", t |-> t]
BadTime == [k |-> "bad", t |-> 0]
NoTime == [k |-> "none", t |-> 0]
\* a timestamp field that holds a number, not a string
NumTime == [k |-> "num", t |-> 0]

\* astimezone().replace(tzinfo=None): the server's wall clock, one hour
\* west of UTC in this model
astimezone(t) == t - 1

\* event.get('startISO') or event.get('startTs')
first_of(a, b) == IF a # NoTime THEN a ELSE b

\* the window of the request: start_date <= date < start_date + 7
week_start == 0
in_week(t) == week_start <= date_of(t) /\ date_of(t) < week_start + 7

\* lines 1802-1849: one record of provided_events becomes event_data, or is
\* skipped (no start, a start or end that does not parse, out of the week)
normalize_event(event) ==
    LET startISO == first_of(event.startISO, event.startTs)
        endISO == first_of(event.endISO, event.endTs)
        event_start == IF startISO.k = "utc" THEN astimezone(startISO.t)
                       ELSE startISO.t
        event_end == IF endISO.k \in {"none", "num"} THEN event_start + 1
                     ELSE IF endISO.k = "utc" THEN astimezone(endISO.t)
                     ELSE endISO.t
    IN  IF \/ startISO.k \in {"none", "bad", "num"}
           \/ ~in_week(event_start)
           \/ endISO.k = "bad"
        THEN [ok |-> FALSE, id |-> "", title |-> "", status |-> "",
              start |-> 0, end |-> 0]
        ELSE [ok |-> TRUE, id |-> event.id, title |-> event.title,
              status |-> event.status, start |-> event_start,
              end |-> event_end]

normalized(provided_events) ==
    LET all == [i \in 1..Len(provided_events) |->
                    normalize_event(provided_events[i])]
        IsOk(e) == e.ok
    IN  SelectSeq(all, IsOk)

\* list.sort(key=lambda x: x['start']): a stable sort
RECURSIVE insert_by_start(_, _)
insert_by_start(ev, s) ==
    IF s = <<>> THEN <<ev>>
    ELSE IF Head(s).start <= ev.start
         THEN <<Head(s)>> \o insert_by_start(ev, Tail(s))
         ELSE <<ev>> \o s

RECURSIVE sort_by_start(_)
sort_by_start(s) ==
    IF s = <<>> THEN <<>>
    ELSE insert_by_start(s[Len(s)], sort_by_start(SubSeq(s, 1, Len(s) - 1)))

\* if event.get('status') == 'malleable': malleable_events, else fixed_events
malleable_events(provided_events) ==
    LET IsMalleable(e) == e.status = "malleable"
    IN  sort_by_start(SelectSeq(normalized(provided_events), IsMalleable))

fixed_events(provided_events) ==
    LET IsFixed(e) == e.status # "malleable"
    IN  sort_by_start(SelectSeq(normalized(provided_events), IsFixed))

\* str.lower() on the titles of this model
lower(title) ==
    CASE title = "Gym" -> "gym"
      [] title = "GYM" -> "gym"
      [] title = "Lecture" -> "lecture"
      [] title = "Lab" -> "lab"
      [] title = "Study" -> "study"
      [] title = "Nap" -> "nap"
      [] OTHER -> title

\* JSON null in a field of the oracle's answer
Null == "<null>"

\* A timestamp string of a proposal: as for a calendar record, and also one
\* with a negative offset (-08:00), JSON null, or no such key.
Minus(t) == [k |-> "minus", t |-> t]
NullTime == [k |-> "null", t |-> 0]

\* x.replace('Z', '').split('+')[0], then datetime.fromisoformat: a 'Z' or
\* a '+hh:mm' is cut off, a '-hh:mm' is parsed and gives an aware datetime
parses(ts) == ts.k \in {"naive", "utc", "minus"}
aware(ts) == ts.k = "minus"

\* faulty variant: only the start of the proposal is tested against the fixed event
overlaps_start_only(prop_start, prop_end, fixed_start, fixed_end) ==
    fixed_start <= prop_start /\ prop_start < fixed_end

\* prop_start < fixed['end'] and prop_end > fixed['start']
overlaps(prop_start, prop_end, fixed_start, fixed_end) ==
    prop_start < fixed_end /\ prop_end > fixed_start

\* RULE 2, the loop over fixed_events: "conflict", "free", or "raise" when
\* an aware and a naive datetime are compared (TypeError)
RECURSIVE check_fixed(_, _, _, _)
check_fixed(fixed, i, prop_start, prop_end) ==
    IF i > Len(fixed) THEN "free"
    ELSE IF date_of(fixed[i].start) # date_of(prop_start.t)
         THEN check_fixed(fixed, i + 1, prop_start, prop_end)
    ELSE IF aware(prop_start) THEN "raise"
    ELSE IF aware(prop_end)
         THEN IF prop_start.t < fixed[i].end THEN "raise"
              ELSE check_fixed(fixed, i + 1, prop_start, prop_end)
    ELSE IF overlaps(prop_start.t, prop_end.t, fixed[i].start, fixed[i].end)
         THEN "conflict"
    ELSE check_fixed(fixed, i + 1, prop_start, prop_end)

\* faulty variant: RULE 1 is not applied
same_day_unchecked(prop_start, current_start) == TRUE

\* RULE 1: prop_date == current_date
same_day(prop_start, current_start) ==
    date_of(prop_start.t) = date_of(current_start.t)

\* lines 2077-2108: is the matched change appended to validated_changes?
\* Every exception in this block drops the change.
passes_rules(change, fixed) ==
    /\ parses(change.proposed_start)
    /\ parses(change.proposed_end)
    /\ parses(change.current_start)
    /\ same_day(change.proposed_start, change.current_start)
    /\ check_fixed(fixed, 1, change.proposed_start, change.proposed_end) = "free"

\* faulty variant: the lookup tables are built from every event of the week
lookup_events_all(fixed, malleable) == fixed \o malleable

\* id_lookup and title_lookup are built from malleable_events
lookup_events(fixed, malleable) == malleable

\* title_lookup[title]: of several events with one title the last one
last_titled(events, title) ==
    LET I == {i \in 1..Len(events) : lower(events[i].title) = title}
    IN  events[CHOOSE i \in I : \A j \in I : j <= i]

\* lines 2059-2070: "id" when event_id is a key of id_lookup, "title" when
\* the lower-cased event_title is a key of title_lookup, "none" otherwise;
\* "raise" when event_title is null (None has no lower())
resolve(change, events) ==
    IF \E i \in 1..Len(events) : events[i].id = change.event_id
    THEN "id"
    ELSE IF change.event_title = Null THEN "raise"
    ELSE IF \E i \in 1..Len(events) :
                lower(events[i].title) = lower(change.event_title)
         THEN "title"
    ELSE "none"

\* the loop "for change in moves_only": raised is set by an exception that
\* only the outermost handler catches
RECURSIVE validate_changes(_, _, _, _, _)
validate_changes(moves_only, i, fixed, events, validated_changes) ==
    IF i > Len(moves_only)
    THEN [raised |-> FALSE, changes |-> validated_changes]
    ELSE LET how == resolve(moves_only[i], events)
             change == IF how = "title"
                       THEN [moves_only[i] EXCEPT !.event_id =
                                last_titled(events, lower(moves_only[i].event_title)).id]
                       ELSE moves_only[i]
         IN  IF how = "raise"
             THEN [raised |-> TRUE, changes |-> <<>>]
             ELSE validate_changes(moves_only, i + 1, fixed, events,
                    IF how # "none" /\ passes_rules(change, fixed)
                    THEN Append(validated_changes, change)
                    ELSE validated_changes)

OptError(asked) == [status |-> "error", proposed_changes |-> <<>>, asked |-> asked]

OptSuccess(changes, asked) ==
    [status |-> "success", proposed_changes |-> changes, asked |-> asked]

\* optimize_schedule_tool: asked tells whether the prompt was sent to the
\* model chain, oracle is what the chain gave back
optimize_schedule_tool(provided_events, oracle) ==
    LET fixed == fixed_events(provided_events)
        malleable == malleable_events(provided_events)
        IsMove(c) == c.action = "move"
        out == validate_changes(SelectSeq(oracle.changes, IsMove), 1, fixed,
                                lookup_events(fixed, malleable), <<>>)
    IN  IF provided_events = <<>> THEN OptError(FALSE)
        ELSE IF malleable = <<>> THEN OptSuccess(<<>>, FALSE)
        ELSE IF oracle.kind # "ok" THEN OptError(TRUE)
        ELSE IF out.raised THEN OptError(TRUE)
        ELSE OptSuccess(out.changes, TRUE)

\* faulty variant: the endpoint hands an empty event list to the tool
optimize_schedule_unguarded(provided_events, oracle) ==
    optimize_schedule_tool(provided_events, oracle)

\* /api/schedule/optimize: "if not provided_events:" no events found for
\* the week; otherwise the tool's answer
optimize_schedule(provided_events, oracle) ==
    IF provided_events = <<>> THEN OptSuccess(<<>>, FALSE)
    ELSE optimize_schedule_tool(provided_events, oracle)

(***************************************************************************)
(* What the environment can hand to the optimizer                          *)
(***************************************************************************)
Event(id, title, status, startISO, startTs, endISO, endTs) ==
    [id |-> id, title |-> title, status |-> status,
     startISO |-> startISO, startTs |-> startTs,
     endISO |-> endISO, endTs |-> endTs]

\* the records of the week, in the order of the event store
EventPool ==
    << Event("m1", "Gym", "malleable", Naive(0), NoTime, Naive(1), NoTime),
       Event("f1", "Lecture", "fixed", Naive(1), NoTime, Naive(3), NoTime),
       Event("m3", "Nap", "malleable", BadTime, NoTime, NoTime, NoTime),
       Event("m2", "Study", "malleable", NoTime, Naive(HoursPerDay),
             NoTime, NoTime),
       Event("f2", "Lab", "", NoTime, Utc(HoursPerDay + 2), NoTime, NoTime) >>

RECURSIVE SubSeqs(_)
SubSeqs(s) ==
    IF s = <<>> THEN {<<>>}
    ELSE LET rest == SubSeqs(Tail(s))
         IN  rest \cup {<<Head(s)>> \o r : r \in rest}

EventLists == SubSeqs(EventPool)

Change(action, event_id, event_title, current_start, proposed_start, proposed_end) ==
    [action |-> action, event_id |-> event_id, event_title |-> event_title,
     current_start |-> current_start, proposed_start |-> proposed_start,
     proposed_end |-> proposed_end]

\* proposals with plain timestamps, on the first day and into the second
PlainChanges ==
    {Change("move", id, title, cur, Naive(ps), Naive(pe)) :
        id \in {"m1", "f1", "zz"}, title \in {"GYM", "Lecture", ""},
        cur \in {Naive(0), Naive(HoursPerDay)},
        ps \in 0..HoursPerDay, pe \in 0..(HoursPerDay + 1)}

BaseChange ==
    Change("move", "m1", "Gym", Naive(0), Naive(HoursPerDay - 1),
           Naive(HoursPerDay))

OddTimes(t) == {Utc(t), Minus(t), BadTime, NullTime, NoTime}

\* proposals with one unusual field, the last one a move that ends in the
\* second hour after midnight
OddChanges ==
    {[BaseChange EXCEPT !.action = "keep"],
     [BaseChange EXCEPT !.event_title = Null],
     [BaseChange EXCEPT !.event_id = "zz", !.event_title = Null],
     [BaseChange EXCEPT !.event_id = Null, !.event_title = "gym"],
     [BaseChange EXCEPT !.proposed_start = Minus(0), !.proposed_end = Naive(1)],
     [BaseChange EXCEPT !.proposed_start = Naive(0), !.proposed_end = Minus(1)],
     [BaseChange EXCEPT !.proposed_end = Naive(HoursPerDay + 2)]}
    \cup {[BaseChange EXCEPT !.proposed_start = x] : x \in OddTimes(HoursPerDay - 1)}
    \cup {[BaseChange EXCEPT !.proposed_end = x] : x \in OddTimes(HoursPerDay)}
    \cup {[BaseChange EXCEPT !.current_start = x] : x \in OddTimes(0)}

\* a proposal that passes every rule when its event is in the week
GoodChange ==
    Change("move", "m2", "Study", Naive(HoursPerDay), Naive(HoursPerDay + 2),
           Naive(HoursPerDay + 3))

ChangeLists ==
    LET P == PlainChanges \cup OddChanges
    IN  {<<>>} \cup {<<c>> : c \in P}
        \cup {<<c, GoodChange>> : c \in P} \cup {<<GoodChange, c>> : c \in P}

\* the answer of the model chain: no model answered, an answer that is no
\* JSON, or a JSON object with a "proposed_changes" list
OptOracle ==
    {[kind |-> "fail", changes |-> <<>>], [kind |-> "badjson", changes |-> <<>>]}
    \cup {[kind |-> "ok", changes |-> c] : c \in ChangeLists}

NoOracle == [kind |-> "unused", changes |-> <<>>]

NoOpt == [pc |-> "idle", provided_events |-> <<>>, oracle |-> NoOracle,
          result |-> OptError(FALSE)]

\* one request to /api/schedule/optimize
OptimizeSchedule ==
    /\ opt.pc = "idle"
    /\ \E provided_events \in EventLists, oracle \in OptOracle :
          LET result == optimize_schedule(provided_events, oracle)
          IN  opt' = [pc |-> "done", provided_events |-> provided_events,
                      oracle |-> IF result.asked THEN oracle ELSE NoOracle,
                      result |-> result]
    /\ UNCHANGED <<cache, clock, voice_checkin_context, resp, pr, chain, sweep,
                 norm, inflight, oracle_request,
                 scoring,
                   dev>>

InitOpt ==
    /\ cache = NoCache
    /\ clock = 0
    /\ voice_checkin_context = "none"
    /\ resp = NoResp
    /\ opt = NoOpt
    /\ pr = NoPredict
    /\ chain = NoChain
    /\ sweep = NoSweep
    /\ norm = NoNorm
    /\ inflight = NoInflight
    /\ scoring = NoScoring
    /\ dev = NoDev
    /\ oracle_request = NoRequest

SpecOpt == InitOpt /\ [][OptimizeSchedule]_vars

(***************************************************************************)
(* The schedule optimizer: claims                                          *)
(***************************************************************************)
\* the fixed and the malleable events of the request's week
KnownFixed == Range(fixed_events(opt.provided_events))
KnownMalleable == Range(malleable_events(opt.provided_events))
MalleableIds == {e.id : e \in KnownMalleable}

\* the changes of the answer, and the proposals of the oracle
Returned == Range(opt.result.proposed_changes)
Proposed == Range(opt.oracle.changes)

\* the half-open overlap test on wall-clock times
Overlap(c, f) == c.proposed_start.t < f.end /\ c.proposed_end.t > f.start

PlainTimes(c) ==
    /\ c.proposed_start.k = "naive"
    /\ c.proposed_end.k = "naive"
    /\ c.current_start.k = "naive"

SameDate(c) == date_of(c.proposed_start.t) = date_of(c.current_start.t)

\* C3: no returned move overlaps a fixed event whose date is the date of
\* its proposed_start (proposed_start < fixed.end and proposed_end >
\* fixed.start), whatever the oracle proposed.
C3_NoOverlapWithSameDayFixed ==
    \A c \in Returned : \A f \in KnownFixed :
        date_of(f.start) = date_of(c.proposed_start.t) => ~Overlap(c, f)

\* a move was returned onto a day that has a fixed event, while another
\* proposal for a known malleable event, overlapping a fixed event of its
\* day, was not
C3_Witness ==
    /\ opt.pc = "done"
    /\ \E c \in Returned : \E f \in KnownFixed :
            date_of(f.start) = date_of(c.proposed_start.t)
    /\ \E c \in Proposed \ Returned : \E f \in KnownFixed :
            /\ c.action = "move" /\ c.event_id \in MalleableIds
            /\ PlainTimes(c) /\ SameDate(c)
            /\ date_of(f.start) = date_of(c.proposed_start.t)
            /\ Overlap(c, f)

\* C4: every returned move has the date of its proposed_start equal to the
\* date of its current_start.
C4_ReturnedMovesStayOnTheirDay ==
    \A c \in Returned : SameDate(c)

\* a move was returned, while a proposal for a known malleable event that
\* moves it to another day was not
C4_Witness ==
    /\ opt.pc = "done"
    /\ Returned # {}
    /\ \E c \in Proposed \ Returned :
            /\ c.action = "move" /\ c.event_id \in MalleableIds
            /\ PlainTimes(c) /\ ~SameDate(c)
            /\ \A f \in KnownFixed : ~Overlap(c, f)

\* C5: when the oracle answers with a list of proposals, the request
\* succeeds whatever is wrong with one of them, and every proposal that is
\* plainly valid is among the returned changes.
C5_InvalidProposalIsDroppedNotAnError ==
    (opt.pc = "done" /\ opt.oracle.kind = "ok") =>
        /\ opt.result.status = "success"
        /\ \A c \in Proposed :
              (/\ c.action = "move" /\ c.event_id \in MalleableIds
               /\ PlainTimes(c) /\ SameDate(c)
               /\ \A f \in KnownFixed :
                     date_of(f.start) = date_of(c.proposed_start.t)
                        => ~Overlap(c, f))
              => c \in Returned

\* C6: every returned change carries the id of a known malleable event: it
\* is a proposal whose event_id is such an id, or a proposal whose title,
\* case ignored, is the title of a malleable event, with that event's id.
C6_ReturnedChangesNameMalleableEvents ==
    \A r \in Returned :
        /\ r.event_id \in MalleableIds
        /\ \E c \in Proposed :
              \/ c.event_id \in MalleableIds /\ r = c
              \/ /\ c.event_id \notin MalleableIds
                 /\ \E e \in KnownMalleable :
                        /\ lower(e.title) = lower(c.event_title)
                        /\ r = [c EXCEPT !.event_id = e.id]

\* a change was returned for a proposal that carried the id of a fixed
\* event and the title, in other case, of a malleable one
C6_Witness ==
    /\ opt.pc = "done"
    /\ \E r \in Returned : \E c \in Proposed :
            /\ c.event_id \in {f.id : f \in KnownFixed}
            /\ r # c
            /\ r = [c EXCEPT !.event_id = r.event_id]
            /\ \E e \in KnownMalleable : e.id = r.event_id /\ e.title # c.event_title

\* C7: with no malleable event in the week (the event list may be empty),
\* the request succeeds with no changes and the oracle is not called.
C7_NoMalleableNoOracle ==
    (opt.pc = "done" /\ KnownMalleable = {}) =>
        /\ opt.result.status = "success"
        /\ opt.result.proposed_changes = <<>>
        /\ ~opt.result.asked

\* a week with fixed events only was answered
C7_Witness ==
    /\ opt.pc = "done"
    /\ opt.provided_events # <<>>
    /\ KnownFixed # {}
    /\ KnownMalleable = {}

\* a file left by a refresh of the day before
OldCache ==
    [exists |-> TRUE,
     predictions |-> [d \in {today - 1} |->
         [score |-> 40, status |-> "building", reasoning |-> "why"]],
     cached_at |-> 0, voice_updated_at |-> -1]

InitCache ==
    /\ cache \in {NoCache, OldCache}
    /\ clock = 0
    /\ voice_checkin_context = "none"
    /\ resp = NoResp
    /\ opt = NoOpt
    /\ pr = NoPredict
    /\ chain = NoChain
    /\ sweep = NoSweep
    /\ norm = NoNorm
    /\ inflight = NoInflight
    /\ scoring = NoScoring
    /\ dev = NoDev
    /\ oracle_request = NoRequest

BatchRefresh ==
    \/ \E oracle \in BatchOracle :
            predict_burnout_batch_tool(TRUE, oracle)
    \/ predict_burnout_batch_tool(FALSE, [kind |-> "fail", preds |-> <<>>])

VoiceTranscribe == voice_transcribe("so stressed about pstat")

VoiceAnalyze ==
    \E is_stressed \in BOOLEAN,
       matched_events \in MatchedLists :
        analyze_mood_and_update_burnout(is_stressed, matched_events)

\* faulty variant: the handler leaves an empty cache file behind when it
\* finds none
get_burnout_cache_creating ==
    /\ clock < MaxOps
    /\ clock' = clock + 1
    /\ resp' = [NoResp EXCEPT !.op = "get", !.status = 200,
                              !.predictions = load_burnout_cache]
    /\ cache' = IF cache.exists THEN cache ELSE batch_file(EmptyMap, clock + 1, cache)
    /\ UNCHANGED <<voice_checkin_context, opt, pr, chain, sweep, norm, inflight,
                   oracle_request,
                 scoring,
                   dev>>

\* GET /api/burnout/cache: {"success": True, "predictions": cache}
get_burnout_cache ==
    /\ clock < MaxOps
    /\ clock' = clock + 1
    /\ resp' = [NoResp EXCEPT !.op = "get", !.status = 200,
                              !.predictions = load_burnout_cache]
    /\ UNCHANGED <<cache, voice_checkin_context, opt, pr, chain, sweep, norm,
                   inflight, oracle_request,
                 scoring,
                   dev>>

\* POST /api/burnout/refresh-cache: 400 for sleep or wake times that are no
\* 'HH:MM'; otherwise predict_burnout_batch_tool is called with user_id,
\* sleep_time, wake_time and days_ahead and no provided_events, and its
\* error result is answered with 500
refresh_burnout_cache(valid_times) ==
    /\ clock < MaxOps
    /\ clock' = clock + 1
    /\ UNCHANGED <<cache, voice_checkin_context, opt, pr, chain, sweep, norm, inflight,
                 scoring,
                   dev>>
    /\ IF ~valid_times
       THEN /\ resp' = [NoResp EXCEPT !.op = "refresh", !.status = 400]
            /\ UNCHANGED oracle_request
       ELSE /\ resp' = [NoResp EXCEPT !.op = "refresh", !.status = 500]
            /\ oracle_request' = NoRequest

GetCache == get_burnout_cache

RefreshCache == \E valid_times \in BOOLEAN : refresh_burnout_cache(valid_times)

NextCache == BatchRefresh \/ VoiceTranscribe \/ VoiceAnalyze \/ GetCache \/ RefreshCache

SpecCache == InitCache /\ [][NextCache]_vars

(***************************************************************************)
(* The burnout cache: claims                                               *)
(***************************************************************************)
\* the threshold function of the data model: <= 30 stable, <= 50 building,
\* <= 70 high-risk, otherwise critical
ThresholdStatus(score) ==
    IF score <= 30 THEN "stable"
    ELSE IF score <= 50 THEN "building"
    ELSE IF score <= 70 THEN "high-risk"
    ELSE "critical"

\* a step that is one analyze-mood request
VoiceStep == clock' = clock + 1 /\ resp'.op = "voice"

\* C1: in every reachable state of the cache, every stored prediction's
\* status is the threshold function of its score.
C1_StatusIsThresholdOfScore ==
    \A d \in DOMAIN cache.predictions :
        cache.predictions[d].status = ThresholdStatus(cache.predictions[d].score)

\* C2: immediately after a batch refresh reports success, the persisted
\* predictions have a key for every date of today..today+days_ahead-1.
C2_RefreshCoversWindow ==
    (resp.op = "batch" /\ resp.status = 200) =>
        date_range(today) \subseteq DOMAIN cache.predictions

\* C8: in one voice adjustment with a stress signal, every distinct matched
\* date that is in the cache is adjusted exactly once: the earliest of the
\* matched dates by +5, every later one by +3, capped at 100.
C8_FirstDateFiveLaterThree ==
    [][(VoiceStep /\ resp'.is_stressed) =>
        \A d \in resp'.matched_dates \cap DOMAIN cache.predictions :
            /\ d \in DOMAIN cache'.predictions
            /\ cache'.predictions[d].score =
                 Min2(100, cache.predictions[d].score
                           + (IF d = SetMin(resp'.matched_dates) THEN 5 ELSE 3))
            /\ Cardinality({k \in 1..Len(resp'.burnout_adjustments) :
                    resp'.burnout_adjustments[k].date = d}) = 1]_vars

\* two dates were adjusted, the first by 5 and the next by 3, one of them
\* matched by more than one event
C8_Witness ==
    /\ resp.op = "voice"
    /\ Len(resp.burnout_adjustments) >= 2
    /\ resp.burnout_adjustments[1].adjustment = 5
    /\ resp.burnout_adjustments[2].adjustment = 3
    /\ \E k \in 1..Len(resp.burnout_adjustments) :
            resp.burnout_adjustments[k].events >= 2

\* C9: an analyze-mood request leaves the key set of the predictions as it
\* was, and the predictions of the dates that were not matched unchanged.
C9_VoiceCreatesNothing ==
    [][VoiceStep =>
        /\ cache'.exists = cache.exists
        /\ DOMAIN cache'.predictions = DOMAIN cache.predictions
        /\ \A d \in (DOMAIN cache.predictions) \ resp'.matched_dates :
                cache'.predictions[d] = cache.predictions[d]]_vars

\* an adjustment was written although one matched date had no prediction,
\* and a prediction of an unmatched date was in the cache
C9_Witness ==
    /\ resp.op = "voice"
    /\ resp.burnout_adjustments # <<>>
    /\ resp.matched_dates \ DOMAIN cache.predictions # {}
    /\ (DOMAIN cache.predictions) \ resp.matched_dates # {}

\* C10: not stressed, or nothing matched, or no matched date in the cache:
\* the analyze-mood request leaves the cache file as it was.
C10_NoWriteWithoutAdjustment ==
    [][(VoiceStep /\ (\/ ~resp'.is_stressed
                      \/ resp'.matched_dates = {}
                      \/ resp'.matched_dates \cap DOMAIN cache.predictions = {}))
        => cache' = cache]_vars

\* a stressed check-in matched events on dates of which none is in the
\* non-empty cache
C10_Witness ==
    /\ resp.op = "voice"
    /\ resp.status = 200
    /\ resp.is_stressed
    /\ resp.matched_dates # {}
    /\ resp.matched_dates \cap DOMAIN cache.predictions = {}
    /\ cache.exists
    /\ DOMAIN cache.predictions # {}
    /\ cache.voice_updated_at = -1

\* a step that is one successful batch refresh
RefreshStep == clock' = clock + 1 /\ resp'.op = "batch" /\ resp'.status = 200

\* C15: a successful batch refresh leaves every prediction of a date before
\* today in the cache, with its score and status.
C15_RefreshKeepsPastDates ==
    [][RefreshStep =>
        \A d \in DOMAIN cache.predictions :
            d < today =>
                /\ d \in DOMAIN cache'.predictions
                /\ cache'.predictions[d].score = cache.predictions[d].score
                /\ cache'.predictions[d].status = cache.predictions[d].status]_vars

(***************************************************************************)
(* /api/burnout/predict                                                    *)
(***************************************************************************)
\* predict_burnout_tool accepts 0 <= days_diff <= 7: the 7, scaled down as
\* DaysAhead is
SingleAhead == 0

\* the answer of the single-date model chain: no model answered, an answer
\* that is no JSON, or a JSON object with a "score"
SingleOracle ==
    {[kind |-> "fail", score |-> NoScore], [kind |-> "badjson", score |-> NoScore]}
    \cup {[kind |-> "ok", score |-> r] :
            r \in {IntScore(25), IntScore(98), TextScore, InfScore}}

\* predict_burnout_tool: a past date, a date too far ahead, no events, no
\* answer, no JSON or an exception give {"error": ...}; nothing is written
predict_burnout_tool(date_str, provided_events, oracle) ==
    LET days_diff == date_str - today
        score == coerce_score(oracle.score)
    IN  IF days_diff < 0 \/ days_diff > SingleAhead \/ ~provided_events
        THEN [error |-> TRUE, asked |-> FALSE, score |-> 0, status |-> ""]
        ELSE IF oracle.kind # "ok" \/ score_raises(oracle.score)
        THEN [error |-> TRUE, asked |-> TRUE, score |-> 0, status |-> ""]
        ELSE [error |-> FALSE, asked |-> TRUE, score |-> score,
              status |-> status_of_score(score)]

\* faulty variant: only the requested date is looked up
needs_refresh_date_only(date_str, cached) == date_str \notin DOMAIN cached

\* needs_refresh: the date is not in the cache, or the cache does not cover
\* the dates today..today+13
needs_refresh(date_str, cached) ==
    IF date_str \notin DOMAIN cached THEN TRUE
    ELSE ~(date_range(today) \subseteq DOMAIN cached)

\* the batch tool returns {"error": ...} and writes nothing
batch_fails(provided_events, oracle) ==
    \/ ~provided_events
    \/ oracle.kind # "ok"
    \/ predictions_raise(oracle.preds)

\* faulty variant: the result of the single-date tool is stored
after_single_stored(file, date_str, single) ==
    IF single.error THEN file
    ELSE [file EXCEPT !.exists = TRUE,
                      !.predictions =
                         [d \in (DOMAIN file.predictions) \cup {date_str} |->
                            IF d = date_str
                            THEN [score |-> single.score, status |-> single.status,
                                  reasoning |-> "why"]
                            ELSE file.predictions[d]]]

\* the cache file after the single-date tool has answered: as it was
after_single(file, date_str, single) == file

\* the JSON answer of a request answered by predict_burnout_tool
single_answer(request, single) ==
    IF single.error
    THEN [request EXCEPT !.single = "error", !.status = 500]
    ELSE [request EXCEPT !.single = "ok", !.status = 200, !.cached = FALSE,
                         !.score = single.score, !.label = single.status]

\* the handler of /api/burnout/predict
predict_burnout(date_str, provided_events, batch_oracle, single_oracle) ==
    LET cached == load_burnout_cache
        refresh == needs_refresh(date_str, cached)
        failed == batch_fails(provided_events, batch_oracle)
        validated == validate_predictions(batch_oracle.preds, EmptyMap)
        file == IF refresh /\ ~failed
                THEN batch_file(validated, clock + 1, cache)
                ELSE cache
        reloaded == IF file.exists THEN file.predictions ELSE EmptyMap
        single == predict_burnout_tool(date_str, provided_events, single_oracle)
        request == [NoPredict EXCEPT
                       !.pc = "done", !.date = date_str,
                       !.provided_events = provided_events,
                       !.needs_refresh = refresh,
                       !.batch = IF ~refresh THEN "none"
                                 ELSE IF failed THEN "error" ELSE "ok",
                       !.batch_oracle = IF refresh /\ provided_events
                                        THEN batch_oracle.kind ELSE "unused",
                       !.single_oracle = single_oracle]
    IN  /\ pr.pc = "idle"
        /\ clock' = clock + 1
        /\ UNCHANGED <<voice_checkin_context, resp, opt, chain, sweep, norm, inflight,
                 scoring,
                   dev>>
        /\ oracle_request' = IF date_str # NoDate /\ refresh /\ provided_events
                             THEN batch_request(cached) ELSE NoRequest
        /\ IF date_str = NoDate
           THEN /\ cache' = cache
                /\ pr' = [NoPredict EXCEPT !.pc = "done", !.status = 400]
           ELSE IF (refresh /\ failed) \/ date_str \notin DOMAIN reloaded
           THEN /\ cache' = after_single(file, date_str, single)
                /\ pr' = single_answer(request, single)
           ELSE /\ cache' = file
                /\ pr' = [request EXCEPT !.status = 200, !.cached = TRUE,
                                         !.score = reloaded[date_str].score,
                                         !.label = reloaded[date_str].status]

\* files left by a batch refresh of the day before, whose oracle named any
\* of the dates from yesterday to the end of today's window
RefreshedCaches ==
    {batch_file(validate_predictions(p, EmptyMap), 0, NoCache) :
        p \in AscLists(today - 1, today + DaysAhead - 1)}

\* a file that a voice check-in has amended
AdjustedCache ==
    [exists |-> TRUE,
     predictions |-> [d \in date_range(today) |->
         IF d = today
         THEN [score |-> 30, status |-> "building", reasoning |-> "why"]
         ELSE [score |-> 25, status |-> "stable", reasoning |-> "why"]],
     cached_at |-> 0, voice_updated_at |-> 0]

\* the "date" of the request: none, yesterday, the window, the day after it
RequestDates == {NoDate} \cup ((today - 1)..(today + DaysAhead))

PredictBurnout ==
    \E date_str \in RequestDates, provided_events \in BOOLEAN,
       batch_oracle \in BatchOracle, single_oracle \in SingleOracle :
        predict_burnout(date_str, provided_events, batch_oracle, single_oracle)

InitPredict ==
    /\ cache \in {NoCache, OldCache, AdjustedCache} \cup RefreshedCaches
    /\ clock = 1
    /\ voice_checkin_context = "none"
    /\ resp = NoResp
    /\ opt = NoOpt
    /\ pr = NoPredict
    /\ chain = NoChain
    /\ sweep = NoSweep
    /\ norm = NoNorm
    /\ inflight = NoInflight
    /\ scoring = NoScoring
    /\ dev = NoDev
    /\ oracle_request = NoRequest

SpecPredict == InitPredict /\ [][PredictBurnout]_vars

(***************************************************************************)
(* /api/burnout/predict: claims                                            *)
(***************************************************************************)
\* a step that is one request with a date
PredictStep == pr.pc = "idle" /\ pr'.pc = "done" /\ pr'.date # NoDate

\* C11: a batch refresh is started exactly when the requested date is not a
\* key of the cached predictions or some date of today..today+13 is not.
C11_RefreshExactlyWhenNeeded ==
    [][PredictStep =>
        /\ pr'.needs_refresh <=>
              (\/ pr'.date \notin DOMAIN cache.predictions
               \/ \E d \in date_range(today) : d \notin DOMAIN cache.predictions)
        /\ pr'.batch # "none" <=> pr'.needs_refresh]_vars

\* a refresh was started, and failed, for a date that is in the cache
C11_Witness ==
    /\ pr.pc = "done"
    /\ pr.needs_refresh
    /\ pr.batch = "error"
    /\ pr.date \in DOMAIN cache.predictions

\* C12: a request for a date with no cache entry starts a batch refresh
\* whose range holds the requested date, and after a successful refresh the
\* requested date is a key of the cache.
C12_RefreshCoversRequestedDate ==
    [][(PredictStep /\ pr'.date \notin DOMAIN cache.predictions) =>
        /\ pr'.batch # "none"
        /\ pr'.date \in date_range(today)
        /\ pr'.batch = "ok" => pr'.date \in DOMAIN cache'.predictions]_vars

\* C13: a refresh is needed, the batch oracle fails and the single-date
\* oracle would answer: the request returns a prediction for the requested
\* date, for every date of today..today+13.
C13_FallbackAnswersWholeWindow ==
    [][(/\ PredictStep
        /\ pr'.needs_refresh
        /\ pr'.batch_oracle \in {"fail", "badjson"}
        /\ pr'.single_oracle.kind = "ok"
        /\ ~score_raises(pr'.single_oracle.score)
        /\ pr'.date \in date_range(today)) =>
        /\ pr'.status = 200
        /\ ~pr'.cached
        /\ pr'.score = coerce_score(pr'.single_oracle.score)]_vars

\* the answer tagged cached=true carries what the cache holds for the date
CachedAnswerIsStored ==
    (pr'.status = 200 /\ pr'.cached) =>
        /\ pr'.date \in DOMAIN cache'.predictions
        /\ pr'.score = cache'.predictions[pr'.date].score
        /\ pr'.label = cache'.predictions[pr'.date].status

NumSdk == 2
\* length of rest_models (5), scaled down
NumRest == 2

\* calculate_nap_time_tool, calculate_meal_windows_tool, predict_burnout_tool,
\* predict_burnout_batch_tool, optimize_schedule_tool, run_query
ChainOps == {"nap", "meal", "single", "batch", "optimize", "query"}

\* What one call gives: a text that is the expected JSON, a text that is
\* not, no text (response.text is None or ''; no candidates over REST), or
\* an exception: quota (429, RESOURCE_EXHAUSTED), model not found (404,
\* NOT_FOUND), any other.
SdkOutcomes == {"json", "garbage", "empty", "quota", "notfound", "other"}
RestOutcomes == {"json", "garbage", "empty", "quota", "other"}

Call(api, model, outcome) == [api |-> api, model |-> model, outcome |-> outcome]

\* where the tool is after a call: the next call to make, or the end
Position(phase, i, result) == [phase |-> phase, i |-> i, result |-> result]

\* run_query has no REST fallback
has_rest(op) == op # "query"

\* json.loads of the cleaned text; run_query returns response.text as it is
finish(op, text) ==
    IF op = "query" \/ text = "json" THEN "ok" ELSE "error"

\* "continue" in the loop over models_to_try, and what follows the loop
advance(op, i) ==
    IF i < NumSdk THEN Position("sdk", i + 1, "none")
    ELSE IF has_rest(op) THEN Position("rest", 1, "none")
    ELSE Position("done", i, "error")

\* "break" with gemini_response set: "if not gemini_response" sends an
\* empty text to the REST fallback
after_text(op, i, text) ==
    IF text = "empty" /\ has_rest(op) THEN Position("rest", 1, "none")
    ELSE Position("done", i, finish(op, text))

\* the except clause of the first call to a model
after_error(op, i, outcome) ==
    IF op = "optimize" THEN advance(op, i)
    ELSE IF op = "query"
         THEN IF outcome = "quota" THEN advance(op, i)
              ELSE Position("done", i, "error")
    ELSE IF outcome = "quota" THEN Position("retry", i, "none")
    ELSE IF outcome = "notfound" THEN advance(op, i)
    ELSE Position("done", i, "error")

\* faulty variant: after a failed retry the same model is tried afresh
after_retry_error_again(op, i) == Position("sdk", i, "none")

\* "except Exception as e2: ... continue"
after_retry_error(op, i) == advance(op, i)

\* _try_rest_api_fallback: a text is returned, everything else goes to the
\* next model; None after the last one
after_rest(op, i, outcome) ==
    IF outcome \in {"json", "garbage"} THEN Position("done", i, finish(op, outcome))
    ELSE IF i < NumRest THEN Position("rest", i + 1, "none")
    ELSE Position("done", i, "error")

\* the chain with one more call in its log, at position pos
Called(api, outcome, pos) ==
    [chain EXCEPT !.phase = pos.phase, !.i = pos.i, !.result = pos.result,
                  !.log = Append(chain.log, Call(api, chain.i, outcome))]

StartChain ==
    /\ chain.phase = "idle"
    /\ \E op \in ChainOps :
          chain' = [NoChain EXCEPT !.op = op, !.phase = "sdk", !.i = 1]
    /\ UNCHANGED <<cache, clock, voice_checkin_context, resp, opt, pr, sweep,
                 norm, inflight, oracle_request,
                 scoring,
                   dev>>

\* client.models.generate_content(model=model, ...), the first call
SdkCall ==
    /\ chain.phase = "sdk"
    /\ \E outcome \in SdkOutcomes :
          chain' = Called("sdk", outcome,
                     IF outcome \in {"json", "garbage", "empty"}
                     THEN after_text(chain.op, chain.i, outcome)
                     ELSE after_error(chain.op, chain.i, outcome))
    /\ UNCHANGED <<cache, clock, voice_checkin_context, resp, opt, pr, sweep,
                 norm, inflight, oracle_request,
                 scoring,
                   dev>>

\* time.sleep(2), then the same call once more
RetryCall ==
    /\ chain.phase = "retry"
    /\ \E outcome \in SdkOutcomes :
          chain' = Called("sdk", outcome,
                     IF outcome \in {"json", "garbage", "empty"}
                     THEN after_text(chain.op, chain.i, outcome)
                     ELSE after_retry_error(chain.op, chain.i))
    /\ UNCHANGED <<cache, clock, voice_checkin_context, resp, opt, pr, sweep,
                 norm, inflight, oracle_request,
                 scoring,
                   dev>>

\* requests.post(url, json=payload, timeout=60)
RestCall ==
    /\ chain.phase = "rest"
    /\ \E outcome \in RestOutcomes :
          chain' = Called("rest", outcome, after_rest(chain.op, chain.i, outcome))
    /\ UNCHANGED <<cache, clock, voice_checkin_context, resp, opt, pr, sweep,
                 norm, inflight, oracle_request,
                 scoring,
                   dev>>

InitChain ==
    /\ cache = NoCache
    /\ clock = 0
    /\ voice_checkin_context = "none"
    /\ resp = NoResp
    /\ opt = NoOpt
    /\ pr = NoPredict
    /\ chain = NoChain
    /\ sweep = NoSweep
    /\ norm = NoNorm
    /\ inflight = NoInflight
    /\ scoring = NoScoring
    /\ dev = NoDev
    /\ oracle_request = NoRequest

NextChain == StartChain \/ SdkCall \/ RetryCall \/ RestCall

SpecChain == InitChain /\ [][NextChain]_vars

\* every call returns or raises: the handler runs on to its return
SpecChainFair == SpecChain /\ WF_vars(NextChain)

\* the calls made so far to one model over one API
CallsTo(api, model) ==
    Cardinality({k \in 1..Len(chain.log) :
                    chain.log[k].api = api /\ chain.log[k].model = model})

\* call k went to the model that follows the model of call k - 1 in the
\* order models_to_try, then rest_models
NextModelCalled(k) ==
    LET a == chain.log[k - 1]
        b == chain.log[k]
    IN  \/ a.api = b.api /\ b.model = a.model + 1
        \/ a.api = "sdk" /\ a.model = NumSdk /\ b.api = "rest" /\ b.model = 1

LastModel(call) ==
    \/ call.api = "rest" /\ call.model = NumRest
    \/ call.api = "sdk" /\ call.model = NumSdk /\ ~has_rest(chain.op)

\* C16: in an operation that expects JSON, a model's text that does not
\* parse is followed by a call to the next model of the list, and the
\* operation ends on such a text only when it came from the last model.
C16_InvalidContentTriesNextModel ==
    \A k \in 1..Len(chain.log) :
        chain.log[k].outcome = "garbage" /\ chain.op # "query" =>
            IF k < Len(chain.log) THEN NextModelCalled(k + 1)
            ELSE chain.phase = "done" => LastModel(chain.log[k])

\* call k is the first call of the run to its SDK model
FirstSdkCall(k) ==
    /\ chain.log[k].api = "sdk"
    /\ k > 1 => chain.log[k - 1] # [chain.log[k] EXCEPT !.outcome = chain.log[k - 1].outcome]

\* C17: in the burnout, nap, meal and optimizer operations, a quota failure
\* of the first call to an SDK model is followed by one more call to the
\* same model, and no model is called more than twice.
C17_QuotaFailureRetriesSameModelOnce ==
    chain.op \in {"batch", "single", "nap", "meal", "optimize"} =>
        /\ \A m \in 1..NumSdk : CallsTo("sdk", m) <= 2
        /\ \A k \in 1..Len(chain.log) :
              FirstSdkCall(k) /\ chain.log[k].outcome = "quota" =>
                  IF k < Len(chain.log)
                  THEN chain.log[k + 1] = [chain.log[k] EXCEPT !.outcome = chain.log[k + 1].outcome]
                  ELSE chain.phase = "retry"

\* C18: a failure of a call that is not a quota failure is the last call of
\* the operation, which ends with an error.
C18_OtherFailureEndsChain ==
    \A k \in 1..Len(chain.log) :
        chain.log[k].outcome \in {"notfound", "other"} =>
            /\ k = Len(chain.log)
            /\ chain.phase = "done"
            /\ chain.result = "error"

\* C19: whatever the calls give, no SDK model is called more than twice and
\* no REST model more than once, and the operation comes to its end with
\* one result or one error and makes no call after it.
C19_BoundedCallsThenOneResult ==
    /\ [](/\ \A m \in 1..NumSdk : CallsTo("sdk", m) <= 2
          /\ \A m \in 1..NumRest : CallsTo("rest", m) <= 1
          /\ Len(chain.log) <= 2 * NumSdk + NumRest)
    /\ <>[](chain.phase = "done" /\ chain.result \in {"ok", "error"})

\* every SDK model failed twice on quota and every REST model failed
C19_Witness ==
    /\ chain.phase = "done"
    /\ chain.result = "error"
    /\ Len(chain.log) = 2 * NumSdk + NumRest

(***************************************************************************)
(* The free-slot sweeps: calculate_nap_time_tool and find_free_slots       *)
(***************************************************************************)
\* Times are minutes after midnight of the target date.
\* most events of one day in the input
MaxEvents == 2

\* nap window: 8 AM to 10 PM
day_start == 8 * 60
day_end == 22 * 60
\* find_free_slots: 9am-5pm work hours
work_start == 9 * 60
work_end == 17 * 60
\* thresholds of the two nap lists, in minutes
short_gap == 30
long_gap == 90

Slot(from, to) == <<from, to>>

\* start and end times of timed events: before, at and in the windows,
\* after them
EventTimes == {7 * 60, 8 * 60, 8 * 60 + 15, 10 * 60, 22 * 60, 23 * 60, 23 * 60 + 30}

\* A timed event of the calendar API carries a UTC offset (aware); an
\* all-day event has dates only, read as midnight to midnight (naive).
TimedEvents == {[start |-> s, end |-> e, aware |-> TRUE] : s \in EventTimes, e \in EventTimes}
AllDayEvent == [start |-> 0, end |-> 24 * 60, aware |-> FALSE]
DayEvents == TimedEvents \cup {AllDayEvent}

DayEventLists == UNION {[1..n -> DayEvents] : n \in 0..MaxEvents}

\* duration_minutes of find_free_slots
Durations == {30, 10 * 60}

Max(a, b) == IF a >= b THEN a ELSE b

\* list.sort: stable, by start (nap) or by the tuple (start, end)
SortsBefore(a, b, by_tuple) ==
    \/ a.start < b.start
    \/ by_tuple /\ a.start = b.start /\ a.end < b.end

RECURSIVE Insert(_, _, _)
Insert(done, ev, by_tuple) ==
    IF done = <<>> THEN <<ev>>
    ELSE IF SortsBefore(ev, done[Len(done)], by_tuple)
         THEN Append(Insert(SubSeq(done, 1, Len(done) - 1), ev, by_tuple), done[Len(done)])
         ELSE Append(done, ev)

RECURSIVE Sorted(_, _)
Sorted(events, by_tuple) ==
    IF events = <<>> THEN <<>>
    ELSE Insert(Sorted(SubSeq(events, 1, Len(events) - 1), by_tuple), events[Len(events)], by_tuple)

\* "if event_start > current_time: ... if gap_duration >= 30: append"
nap_gap(from, to, minimum) ==
    IF to > from /\ to - from >= minimum THEN <<Slot(from, to)>> ELSE <<>>

\* the loop over day_events from event k on, then the gap after the last
RECURSIVE nap_gaps(_, _, _, _)
nap_gaps(day_events, k, current_time, minimum) ==
    IF k > Len(day_events) THEN nap_gap(current_time, day_end, minimum)
    ELSE nap_gap(current_time, day_events[k].start, minimum)
         \o nap_gaps(day_events, k + 1, Max(current_time, day_events[k].end), minimum)

\* the times of day_events are made naive local times before the sweep
nap_free_slots(events, minimum) ==
    IF events = <<>> THEN <<Slot(day_start, day_end)>>
    ELSE nap_gaps(Sorted(events, FALSE), 1, day_start, minimum)

\* "if current_time + timedelta(minutes=duration_minutes) <= busy_start"
find_gap(from, to, duration_minutes) ==
    IF from + duration_minutes <= to THEN <<Slot(from, to)>> ELSE <<>>

RECURSIVE find_gaps(_, _, _, _)
find_gaps(busy_times, k, current_time, duration_minutes) ==
    IF k > Len(busy_times) THEN find_gap(current_time, work_end, duration_minutes)
    ELSE find_gap(current_time, busy_times[k].start, duration_minutes)
         \o find_gaps(busy_times, k + 1, Max(current_time, busy_times[k].end), duration_minutes)

\* work_start is naive: comparing it (or a naive start, in the sort) with
\* an aware time raises TypeError, and "except Exception" returns []
find_free_slots(events, duration_minutes) ==
    IF \E k \in 1..Len(events) : events[k].aware THEN <<>>
    ELSE find_gaps(Sorted(events, TRUE), 1, work_start, duration_minutes)

NapSweep ==
    /\ sweep.pc = "idle"
    /\ sweep.tool = "nap"
    /\ sweep' = [sweep EXCEPT !.pc = "done",
                              !.free_slots_30 = nap_free_slots(sweep.events, short_gap),
                              !.free_slots_90 = nap_free_slots(sweep.events, long_gap)]
    /\ UNCHANGED <<cache, clock, voice_checkin_context, resp, opt, pr, chain,
                 norm, inflight, oracle_request,
                 scoring,
                   dev>>

FindFreeSlots ==
    /\ sweep.pc = "idle"
    /\ sweep.tool = "find"
    /\ sweep' = [sweep EXCEPT !.pc = "done",
                              !.free_slots = find_free_slots(sweep.events, sweep.duration)]
    /\ UNCHANGED <<cache, clock, voice_checkin_context, resp, opt, pr, chain,
                 norm, inflight, oracle_request,
                 scoring,
                   dev>>

InitSweep ==
    /\ cache = NoCache
    /\ clock = 0
    /\ voice_checkin_context = "none"
    /\ resp = NoResp
    /\ opt = NoOpt
    /\ pr = NoPredict
    /\ chain = NoChain
    /\ norm = NoNorm
    /\ inflight = NoInflight
    /\ scoring = NoScoring
    /\ dev = NoDev
    /\ oracle_request = NoRequest
    /\ \E events \in DayEventLists :
          \/ sweep = [NoSweep EXCEPT !.tool = "nap", !.events = events]
          \/ \E duration \in Durations :
                sweep = [NoSweep EXCEPT !.tool = "find", !.events = events,
                                        !.duration = duration]

SpecSweep == InitSweep /\ [][NapSweep \/ FindFreeSlots]_vars

\* the slots of the finished sweep and its window
ReturnedSlots == IF sweep.tool = "nap" THEN sweep.free_slots_30 ELSE sweep.free_slots
WindowStart == IF sweep.tool = "nap" THEN day_start ELSE work_start
WindowEnd == IF sweep.tool = "nap" THEN day_end ELSE work_end

\* the returned slots followed by the event intervals
SlotsAndEvents ==
    ReturnedSlots \o [k \in 1..Len(sweep.events) |-> Slot(sweep.events[k].start, sweep.events[k].end)]

\* the moments of the window where the cover can change
WindowPoints ==
    ({WindowStart} \cup {SlotsAndEvents[k][1] : k \in DOMAIN SlotsAndEvents}
                   \cup {SlotsAndEvents[k][2] : k \in DOMAIN SlotsAndEvents})
    \cap (WindowStart..(WindowEnd - 1))

CoveredBy(t) == {k \in DOMAIN SlotsAndEvents : SlotsAndEvents[k][1] <= t /\ t < SlotsAndEvents[k][2]}

\* C20: after a sweep every moment of the window lies in exactly one of
\* the returned slots and event intervals, and with no events the one
\* returned slot is the whole window.
C20_SlotsAndEventsPartitionWindow ==
    sweep.pc = "done" =>
        /\ \A t \in WindowPoints : Cardinality(CoveredBy(t)) = 1
        /\ sweep.events = <<>> => ReturnedSlots = <<Slot(WindowStart, WindowEnd)>>

\* the lists a finished sweep returns, each with the minimum it was asked for
ReturnedLists ==
    IF sweep.tool = "nap"
    THEN {<<sweep.free_slots_30, short_gap>>, <<sweep.free_slots_90, long_gap>>}
    ELSE {<<sweep.free_slots, sweep.duration>>}

Intersects(slot, ev) == slot[1] < ev.end /\ ev.start < slot[2]

\* C21: every returned slot is longer than zero and at least as long as
\* the requested minimum, meets no event of the day, and the slots of a
\* list are in ascending order without overlap.
C21_SlotsLongEnoughFreeAndDisjoint ==
    sweep.pc = "done" =>
        \A list \in ReturnedLists :
            /\ \A k \in 1..Len(list[1]) :
                  /\ list[1][k][2] > list[1][k][1]
                  /\ list[1][k][2] - list[1][k][1] >= list[2]
                  /\ \A j \in 1..Len(sweep.events) : ~Intersects(list[1][k], sweep.events[j])
            /\ \A k \in 1..(Len(list[1]) - 1) : list[1][k][2] <= list[1][k + 1][1]

(***************************************************************************)
(* The pass of each tool over the records of provided_events               *)
(***************************************************************************)
\* most records in one request
MaxRecords == 2

\* the date the nap tool is asked about
target_date == today

\* event_dt: the start of a record as a naive local time
parsed_start(startISO) ==
    IF startISO.k = "utc" THEN astimezone(startISO.t) ELSE startISO.t

\* event_end: "if endISO: if isinstance(endISO, str): ... else: event_dt +
\* timedelta(hours=1)"
parsed_end(endISO, event_dt) ==
    IF endISO.k \in {"none", "num"} THEN event_dt + 1
    ELSE IF endISO.k = "utc" THEN astimezone(endISO.t)
    ELSE endISO.t

\* the record is left out: no start, or the try block raised (a start
\* that is no string or no ISO time, an end string that is no ISO time)
skipped(event) ==
    \/ event.startISO.k \in {"none", "bad", "num"}
    \/ event.endISO.k = "bad"

DayEvent(event) ==
    [start |-> parsed_start(event.startISO),
     end |-> parsed_end(event.endISO, parsed_start(event.startISO))]

\* The field each tool takes the start of a record from. Python's "or"
\* passes over an absent field; the records here carry no 'raw' key other
\* than the one of RawStartString.
\*   nap:      event.get('startISO')
\*   meal:     event.get('startTs') or event.get('startISO'), else the
\*             nested start.dateTime
\*   single,
\*   batch:    event.get('startISO'), else the nested start.dateTime
\*   optimize: event.get('startISO') or event.get('startTs')
start_field(tool, event) ==
    CASE tool = "nap" -> event.startISO
      [] tool = "meal" -> first_of(first_of(event.startTs, event.startISO), event.start)
      [] tool \in {"single", "batch"} -> first_of(event.startISO, event.start)
      [] OTHER -> first_of(event.startISO, event.startTs)

\* the field each tool takes the end of a record from
end_field(tool, event) ==
    CASE tool = "meal" -> first_of(first_of(event.endTs, event.endISO), event.end)
      [] tool \in {"nap", "single", "batch"} -> first_of(event.endISO, event.end)
      [] OTHER -> first_of(event.endISO, event.endTs)

\* the record as the tool reads it: startISO and endISO of the loop body
seen(tool, event) ==
    [event EXCEPT !.startISO = start_field(tool, event),
                  !.endISO = end_field(tool, event)]

\* the day_events of a tool that is asked about one date
day_events_of(tool, records) ==
    LET read == [i \in 1..Len(records) |-> seen(tool, records[i])]
        Kept(event) == ~skipped(event) /\ date_of(parsed_start(event.startISO)) = target_date
        kept == SelectSeq(read, Kept)
    IN  [i \in 1..Len(kept) |-> DayEvent(kept[i])]

\* calculate_nap_time_tool: day_events
nap_day_events(records) == day_events_of("nap", records)

\* calculate_meal_windows_tool: day_events
meal_day_events(records) == day_events_of("meal", records)

\* predict_burnout_tool: day_events
single_day_events(records) == day_events_of("single", records)

\* predict_burnout_batch_tool: events_by_date, all dates together
batch_events(records) ==
    LET read == [i \in 1..Len(records) |-> seen("batch", records[i])]
        Kept(event) == ~skipped(event) /\ date_of(parsed_start(event.startISO)) \in date_range(today)
        kept == SelectSeq(read, Kept)
    IN  [i \in 1..Len(kept) |-> DayEvent(kept[i])]

\* optimize_schedule_tool: fixed_events and malleable_events together
optimizer_events(records) ==
    LET kept == normalized(records)
    IN  [i \in 1..Len(kept) |-> [start |-> kept[i].start, end |-> kept[i].end]]

tool_events(tool, records) ==
    CASE tool = "nap" -> nap_day_events(records)
      [] tool = "meal" -> meal_day_events(records)
      [] tool = "single" -> single_day_events(records)
      [] tool = "batch" -> batch_events(records)
      [] OTHER -> optimizer_events(records)

\* event.get(...) is called before the try block: a record that is no
\* dict raises AttributeError there, and so does raw.get('start', {}).get
\* in the nap tool when 'start' of raw is a string. The tool's outer
\* except turns it into an error result.
record_raises(tool, event) ==
    \/ event.shape = "null"
    \/ tool = "nap" /\ event.shape = "raw_start_str"

pass_over(tool, records) ==
    IF \E i \in 1..Len(records) : record_raises(tool, records[i])
    THEN [error |-> TRUE, events |-> <<>>]
    ELSE [error |-> FALSE, events |-> tool_events(tool, records)]

StartStamps == {Naive(1), BadTime, NoTime, NumTime}
EndStamps == {Naive(0), Naive(2), Utc(3), BadTime, NoTime, NumTime}

DictRecord(startISO, endISO) ==
    [id |-> "e", title |-> "Study", status |-> "malleable", shape |-> "dict",
     startISO |-> startISO, startTs |-> NoTime, endISO |-> endISO, endTs |-> NoTime,
     start |-> NoTime, end |-> NoTime]

\* null in the JSON list of events
NullRecord == [DictRecord(NoTime, NoTime) EXCEPT !.shape = "null"]
\* {"raw": {"start": "2026-01-11T10:00:00"}} and no startISO
RawStartString == [DictRecord(NoTime, NoTime) EXCEPT !.shape = "raw_start_str"]

\* a record of the event store: {"startTs": ..., "endTs": ...}
TsRecord == [DictRecord(NoTime, NoTime) EXCEPT !.startTs = Naive(1), !.endTs = Naive(3)]
\* a record of the calendar API: {"start": {"dateTime": ...}, "end": {...}}
NestedRecord == [DictRecord(NoTime, NoTime) EXCEPT !.start = Naive(1), !.end = Naive(3)]
\* {"startISO": ..., "endTs": ...}
MixedRecord == [DictRecord(Naive(1), NoTime) EXCEPT !.endTs = Naive(3)]

Records ==
    {DictRecord(s, e) : s \in StartStamps, e \in EndStamps}
        \cup {NullRecord, RawStartString, TsRecord, NestedRecord, MixedRecord}

RecordLists == UNION {[1..n -> Records] : n \in 1..MaxRecords}

NormTools == {"nap", "meal", "single", "batch", "optimize"}

NormalizeRecords ==
    /\ norm.pc = "idle"
    /\ norm.tool \in NormTools
    /\ LET out == pass_over(norm.tool, norm.records)
       IN  norm' = [norm EXCEPT !.pc = "done", !.error = out.error,
                                !.events = out.events]
    /\ UNCHANGED <<cache, clock, voice_checkin_context, resp, opt, pr, chain,
                   sweep, inflight, oracle_request,
                 scoring,
                   dev>>

InitNorm ==
    /\ cache = NoCache
    /\ clock = 0
    /\ voice_checkin_context = "none"
    /\ resp = NoResp
    /\ opt = NoOpt
    /\ pr = NoPredict
    /\ chain = NoChain
    /\ sweep = NoSweep
    /\ inflight = NoInflight
    /\ scoring = NoScoring
    /\ dev = NoDev
    /\ oracle_request = NoRequest
    /\ \E tool \in NormTools, records \in RecordLists :
          norm = [NoNorm EXCEPT !.tool = tool, !.records = records]

SpecNorm == InitNorm /\ [][NormalizeRecords]_vars

\* C22: every event that the pass of a tool hands on ends after it starts.
C22_NormalizedEventsEndAfterStart ==
    norm.pc = "done" =>
        \A i \in 1..Len(norm.events) : norm.events[i].end > norm.events[i].start

\* a record whose timestamps the tools can read
WellFormed(event) == event.shape = "dict" /\ ~skipped(seen(norm.tool, event))

\* C23: whatever malformed records the list holds, the pass ends without
\* an error and hands on what it hands on for the well-formed records
\* alone.
C23_MalformedRecordsAreSkipped ==
    norm.pc = "done" =>
        /\ ~norm.error
        /\ norm.events = tool_events(norm.tool, SelectSeq(norm.records, WellFormed))

\* the voice matcher, every title matched: the date of each record whose
\* start it can read. start_iso = event.get('startTs') or
\* event.get('startISO'); a start that does not parse, or holds a number,
\* gives no date.
voice_event_dates(records) ==
    LET start_iso(event) == first_of(event.startTs, event.startISO)
        Dated(event) == start_iso(event).k \in {"naive", "utc"}
        dated == SelectSeq(records, Dated)
    IN  [i \in 1..Len(dated) |-> date_of(start_iso(dated[i]).t)]

\* the dates of the records whose start the tool can read
start_dates(tool, records) ==
    LET Readable(event) == start_field(tool, event).k \in {"naive", "utc"}
        readable == SelectSeq(records, Readable)
    IN  [i \in 1..Len(readable) |->
            date_of(parsed_start(start_field(tool, readable[i])))]

\* C39: the tools agree on the records they are given. Every start of a
\* record lies on the day that all of the tools look at, so for a list of
\* dict records each tool hands on the same events, with the same start
\* and end, and the voice matcher, which reads no end, dates the records
\* whose start the tool can read.
C39_NormalizationsAgree ==
    (norm.pc = "done" /\ \A i \in 1..Len(norm.records) : norm.records[i].shape = "dict") =>
        /\ \A tool \in NormTools : tool_events(tool, norm.records) = norm.events
        /\ voice_event_dates(norm.records) = start_dates(norm.tool, norm.records)

(***************************************************************************)
(* Two cache requests of one user served at the same time                  *)
(***************************************************************************)
\* The server runs each request in a thread of its own and takes no lock:
\* between the read of the cache file and the write of it the other
\* request may read or write the file.

\* the predictions a handler finds in the file it has read
predictions_of(file) == IF file.exists THEN file.predictions ELSE EmptyMap

\* the voice handler after its read: what it writes, if it writes
voice_write(loaded, matched_events) ==
    update_burnout_cache(TRUE, matched_events, predictions_of(loaded))

\* the whole request on a file that no other request touches
served_alone(file, req) ==
    IF req.kind = "voice"
    THEN save_updated_cache(file, voice_write(file, req.matched_events), 0)
    ELSE IF batch_fails(TRUE, req.oracle) THEN file
         ELSE batch_file(validate_predictions(req.oracle.preds, EmptyMap), 0, file)

\* analyze_mood_and_update_burnout, is_stressed with matched events:
\* "with open(cache_path, 'r') as f: cache_data = json.load(f)"
VoiceRead(p) ==
    /\ inflight[p].pc = "idle"
    /\ \E matched_events \in MatchedLists \ {<<>>} :
          inflight' = [inflight EXCEPT ![p] =
              [pc |-> "loaded", kind |-> "voice", loaded |-> cache,
               matched_events |-> matched_events, oracle |-> NoOracle]]
    /\ UNCHANGED <<cache, clock, voice_checkin_context, resp, opt, pr, chain,
                   sweep, norm, oracle_request,
                 scoring,
                   dev>>

\* "if burnout_adjustments: ... json.dump(cache_data, f, indent=2)"
VoiceWrite(p) ==
    /\ inflight[p].pc = "loaded"
    /\ inflight[p].kind = "voice"
    /\ LET out == voice_write(inflight[p].loaded, inflight[p].matched_events)
       IN  cache' = IF out.burnout_adjustments # <<>>
                    THEN save_updated_cache(inflight[p].loaded, out, clock + 1)
                    ELSE cache
    /\ clock' = clock + 1
    /\ inflight' = [inflight EXCEPT ![p].pc = "done"]
    /\ UNCHANGED <<voice_checkin_context, resp, opt, pr, chain, sweep, norm,
                   oracle_request,
                 scoring,
                   dev>>

\* predict_burnout_batch_tool: "previous_cache = load_burnout_cache(...)",
\* then the oracle is asked
BatchRead(p) ==
    /\ inflight[p].pc = "idle"
    /\ \E oracle \in BatchOracle :
          inflight' = [inflight EXCEPT ![p] =
              [pc |-> "loaded", kind |-> "batch", loaded |-> cache,
               matched_events |-> <<>>, oracle |-> oracle]]
    /\ UNCHANGED <<cache, clock, voice_checkin_context, resp, opt, pr, chain,
                   sweep, norm, oracle_request,
                 scoring,
                   dev>>

\* the oracle has answered: "with open(cache_path, 'w') as f: json.dump"
BatchWrite(p) ==
    /\ inflight[p].pc = "loaded"
    /\ inflight[p].kind = "batch"
    /\ cache' = IF batch_fails(TRUE, inflight[p].oracle) THEN cache
                ELSE batch_file(validate_predictions(inflight[p].oracle.preds, EmptyMap),
                                clock + 1, cache)
    /\ clock' = clock + 1
    /\ inflight' = [inflight EXCEPT ![p].pc = "done"]
    /\ UNCHANGED <<voice_checkin_context, resp, opt, pr, chain, sweep, norm,
                   oracle_request,
                 scoring,
                   dev>>

\* the file both requests start from
SharedCache == AdjustedCache

InitShared ==
    /\ cache = SharedCache
    /\ clock = 0
    /\ voice_checkin_context = "so stressed about pstat"
    /\ resp = NoResp
    /\ opt = NoOpt
    /\ pr = NoPredict
    /\ chain = NoChain
    /\ sweep = NoSweep
    /\ norm = NoNorm
    /\ inflight = NoInflight
    /\ scoring = NoScoring
    /\ dev = NoDev
    /\ oracle_request = NoRequest

NextShared ==
    \E p \in Procs : VoiceRead(p) \/ VoiceWrite(p) \/ BatchRead(p) \/ BatchWrite(p)

SpecShared == InitShared /\ [][NextShared]_vars

\* C24: when two requests of the user have both been served, the stored
\* predictions are those of serving one request after the other, in one
\* of the two orders.
C24_ConcurrentRequestsSerialize ==
    (\A p \in Procs : inflight[p].pc = "done") =>
        \E first \in Procs : \E second \in Procs \ {first} :
            cache.predictions =
                served_alone(served_alone(SharedCache, inflight[first]),
                             inflight[second]).predictions

\* C25: a GET of the cache answers with the stored predictions, an empty
\* map when there is no file, and leaves the file and the oracle alone.
C25_GetCacheIsReadOnly ==
    [][resp'.op = "get" =>
          /\ cache' = cache
          /\ oracle_request' = oracle_request
          /\ resp'.status = 200
          /\ resp'.predictions = IF cache.exists THEN cache.predictions ELSE EmptyMap]_vars

\* the stored predictions of a refreshed file have been returned
C25_Witness ==
    /\ resp.op = "get"
    /\ cache.exists
    /\ resp.predictions = cache.predictions
    /\ DOMAIN resp.predictions # {}

\* C26: a refresh-cache request with valid times ends with success and a
\* file that holds a prediction for each of the next days_ahead days.
C26_RefreshEndpointFillsCache ==
    [][resp'.op = "refresh" /\ resp'.status # 400 =>
          /\ resp'.status = 200
          /\ date_range(today) \subseteq DOMAIN cache'.predictions]_vars

(***************************************************************************)
(* Batch refreshes over files that hold predictions of past days           *)
(***************************************************************************)
\* files left by a refresh of an earlier day: any of the days from
\* HistoryDays + 1 days ago to yesterday has a prediction
PastCaches ==
    {batch_file(validate_predictions(p, EmptyMap), 0, NoCache) :
        p \in AscLists(today - HistoryDays - 1, today - 1)}

InitHistory ==
    /\ cache \in PastCaches
    /\ clock = 0
    /\ voice_checkin_context = "none"
    /\ resp = NoResp
    /\ opt = NoOpt
    /\ pr = NoPredict
    /\ chain = NoChain
    /\ sweep = NoSweep
    /\ norm = NoNorm
    /\ inflight = NoInflight
    /\ scoring = NoScoring
    /\ dev = NoDev
    /\ oracle_request = NoRequest

SpecHistory == InitHistory /\ [][BatchRefresh]_vars

\* a batch refresh that has asked the oracle
OracleAsked == clock' = clock + 1 /\ resp'.op = "batch" /\ oracle_request' # NoRequest

PastDates == {d \in DOMAIN load_burnout_cache : d < today}

\* the n latest dates of S, all of S when it has fewer
MostRecent(S, n) == {d \in S : Cardinality({x \in S : x > d}) < n}

\* the request holds the cached score and status of exactly the dates of
\* S, in ascending order, then all the days from today on, in one prompt
RequestCarries(req, S) ==
    /\ req.count = 1
    /\ {req.history[k].date : k \in 1..Len(req.history)} = S
    /\ \A k \in 1..Len(req.history) :
          /\ req.history[k].score = load_burnout_cache[req.history[k].date].score
          /\ req.history[k].status = load_burnout_cache[req.history[k].date].status
    /\ \A k \in 1..(Len(req.history) - 1) : req.history[k].date < req.history[k + 1].date
    /\ req.days = [i \in 1..DaysAhead |-> today + i - 1]

\* C27 as stated: the oracle is given the up to HistoryDays latest cached
\* predictions dated before today, oldest first, and then every day of the
\* window from today on, in one request.
C27_HistoryIsMostRecentCached ==
    [][OracleAsked => RequestCarries(oracle_request', MostRecent(PastDates, HistoryDays))]_vars

\* C27 as amended: the oracle is given the cached predictions of the
\* HistoryDays days before today, oldest first, and then every day of the
\* window from today on, in one request.
C27_HistoryIsLastDaysCached ==
    [][OracleAsked =>
          RequestCarries(oracle_request', PastDates \cap ((today - HistoryDays)..(today - 1)))]_vars

\* a request with a history of more than one day
C27_Witness ==
    /\ oracle_request.count = 1
    /\ Len(oracle_request.history) = HistoryDays
    /\ resp.op = "batch"

TenthsMargin == 20

\* the oracle's fractional scores, in tenths, from below 0 to above 100
ScoreInputs == {FloatScore(v) : v \in (0 - TenthsMargin)..(1000 + TenthsMargin)}

\* the body of "for pred in predictions" for one prediction: the score and
\* the status of the entry it puts into validated_predictions
ValidateScore ==
    /\ scoring.pc = "raw"
    /\ LET entry == validate_predictions(<<Pred(today, scoring.raw)>>, EmptyMap)[today]
       IN  scoring' = [scoring EXCEPT !.pc = "stored",
                                      !.score = entry.score,
                                      !.status = entry.status]
    /\ UNCHANGED <<cache, clock, voice_checkin_context, resp, opt, pr, chain,
                   sweep, norm, inflight, oracle_request,
                   dev>>

InitScoring ==
    /\ scoring \in {[NoScoring EXCEPT !.pc = "raw", !.raw = r] : r \in ScoreInputs}
    /\ dev = NoDev
    /\ cache = NoCache
    /\ clock = 0
    /\ voice_checkin_context = "none"
    /\ resp = NoResp
    /\ opt = NoOpt
    /\ pr = NoPredict
    /\ chain = NoChain
    /\ sweep = NoSweep
    /\ norm = NoNorm
    /\ inflight = NoInflight
    /\ oracle_request = NoRequest

SpecScoring == InitScoring /\ [][ValidateScore]_vars

ScoreRange == (0 - TenthsMargin)..(100 + TenthsMargin)

\* the integers nearest to v tenths (two of them when v lies half-way)
Nearest(v) ==
    {n \in ScoreRange : 10 * n - v <= 5 /\ v - 10 * n <= 5}

\* the integer part of v tenths: the integer between 0 and v that is less
\* than 1 away from v
IntegerPart(v) ==
    CHOOSE n \in ScoreRange :
        IF v >= 0 THEN 10 * n <= v /\ v < 10 * n + 10
        ELSE 10 * n >= v /\ v > 10 * n - 10

Clamped(n) == IF n < 0 THEN 0 ELSE IF n > 100 THEN 100 ELSE n

C30_ReturnedMovesStayOnTheEventsDay ==
    \A c \in Returned : \A m \in KnownMalleable :
        m.id = c.event_id => date_of(c.proposed_start.t) = date_of(m.start)

\* C31: no returned move overlaps any fixed event of the week, a fixed
\* event of the day before or after the proposed day included.
C31_NoOverlapWithAnyFixed ==
    \A c \in Returned : \A f \in KnownFixed :
        PlainTimes(c) => ~Overlap(c, f)

\* the proposed start lies strictly inside a fixed event of its day
StartsInside(c, f) ==
    /\ date_of(f.start) = date_of(c.proposed_start.t)
    /\ f.start < c.proposed_start.t
    /\ c.proposed_start.t < f.end

\* C32: no returned move starts strictly inside a fixed event of its day,
\* whatever its proposed_end, and every returned move ends after it starts.
C32_StartInsideFixedIsRejected ==
    \A c \in Returned :
        PlainTimes(c) =>
            /\ c.proposed_end.t > c.proposed_start.t
            /\ \A f \in KnownFixed : ~StartsInside(c, f)

(***************************************************************************)
(* The keys of the cache after a refresh                                   *)
(***************************************************************************)
\* C33: after a successful batch refresh every key of the stored
\* predictions is a requested date (today..today+N-1) or a date before
\* today that was cached before the refresh.
C33_RefreshStoresRequestedDatesOnly ==
    [][RefreshStep =>
        \A d \in DOMAIN cache'.predictions :
            \/ d \in date_range(today)
            \/ d < today /\ d \in DOMAIN cache.predictions]_vars

(***************************************************************************)
(* The order of the calls of one operation                                 *)
(***************************************************************************)
\* the place of a call's model in the order models_to_try, then rest_models
Priority(call) == IF call.api = "sdk" THEN call.model ELSE NumSdk + call.model

\* the call returned a text
Succeeded(call) == call.outcome \in {"json", "garbage"}

\* C34: the calls of one operation go through the models in list order,
\* the SDK list before the REST list; a model is called only after every
\* model before it was called and failed, and no call follows a call that
\* returned a text.
C34_ModelsTriedInListOrder ==
    \A k \in 1..Len(chain.log) :
        /\ \A j \in 1..(k - 1) : Priority(chain.log[j]) <= Priority(chain.log[k])
        /\ \A q \in 1..(Priority(chain.log[k]) - 1) :
              \E j \in 1..(k - 1) :
                  Priority(chain.log[j]) = q /\ ~Succeeded(chain.log[j])
        /\ Succeeded(chain.log[k]) => k = Len(chain.log) /\ chain.phase = "done"

(***************************************************************************)
(* /api/burnout/predict right after a successful refresh                   *)
(***************************************************************************)
\* the files a successful batch refresh of today leaves, written at tick 1:
\* the oracle answered for any of the requested dates
FreshCaches ==
    {batch_file(validate_predictions(p, EmptyMap), 1, NoCache) :
        p \in AscLists(today, today + DaysAhead - 1)}

InitFresh ==
    /\ cache \in FreshCaches
    /\ clock = 1
    /\ voice_checkin_context = "none"
    /\ resp = NoResp
    /\ opt = NoOpt
    /\ pr = NoPredict
    /\ chain = NoChain
    /\ sweep = NoSweep
    /\ norm = NoNorm
    /\ inflight = NoInflight
    /\ scoring = NoScoring
    /\ dev = NoDev
    /\ oracle_request = NoRequest

\* the request that follows the refresh
SpecFresh == InitFresh /\ [][PredictBurnout]_vars

\* C35: the request that follows a successful refresh, for a date of
\* today..today+13, needs no refresh and is answered from the cache: no
\* batch and no single-date prediction is started, the file is not written.
C35_RequestAfterRefreshIsCached ==
    [][(PredictStep /\ pr'.date \in date_range(today)) =>
        /\ ~pr'.needs_refresh
        /\ pr'.batch = "none"
        /\ pr'.single = "none"
        /\ pr'.status = 200
        /\ pr'.cached
        /\ cache' = cache]_vars

(***************************************************************************)
(* Voice check-ins with no refresh in between                              *)
(***************************************************************************)
InitVoice ==
    /\ cache \in FreshCaches \cup {NoCache}
    /\ clock = 0
    /\ voice_checkin_context = "none"
    /\ resp = NoResp
    /\ opt = NoOpt
    /\ pr = NoPredict
    /\ chain = NoChain
    /\ sweep = NoSweep
    /\ norm = NoNorm
    /\ inflight = NoInflight
    /\ scoring = NoScoring
    /\ dev = NoDev
    /\ oracle_request = NoRequest

NextVoice == VoiceTranscribe \/ VoiceAnalyze

SpecVoice == InitVoice /\ [][NextVoice]_vars

\* C36: an analyze-mood request lowers no cached score and leaves none
\* above 100; it keeps the stored check-in, and every time it finds stress
\* it raises the score of each matched date that is cached and below 100.
C36_VoiceScoresOnlyRise ==
    [][VoiceStep =>
        /\ voice_checkin_context' = voice_checkin_context
        /\ \A d \in DOMAIN cache.predictions :
              /\ d \in DOMAIN cache'.predictions
              /\ cache'.predictions[d].score >= cache.predictions[d].score
              /\ cache'.predictions[d].score <= 100
        /\ (resp'.status = 200 /\ resp'.is_stressed) =>
              \A d \in resp'.matched_dates \cap DOMAIN cache.predictions :
                  cache.predictions[d].score < 100 =>
                      cache'.predictions[d].score > cache.predictions[d].score]_vars

\* the same date was raised by a second analysis of the stored check-in,
\* and a score is held at 100
C36_Witness ==
    /\ resp.op = "voice"
    /\ \E i \in 1..Len(resp.burnout_adjustments) :
          /\ resp.burnout_adjustments[i].old_score \in {28, 30}
          /\ resp.burnout_adjustments[i].new_score > resp.burnout_adjustments[i].old_score
    /\ \E d \in DOMAIN cache.predictions : cache.predictions[d].score = 100

\* C37: an analyze-mood request with no stored check-in answers 400 and
\* leaves the cache as it was, so the cache is changed by an analysis only
\* when a check-in is stored; a check-in is stored by a transcribe request
\* only, which touches neither the cache nor the answer of a request.
C37_NoCheckInNoAdjustment ==
    [][/\ (VoiceStep /\ voice_checkin_context = "none") =>
              resp'.status = 400 /\ cache' = cache
       /\ (VoiceStep /\ cache' # cache) => voice_checkin_context # "none"
       /\ voice_checkin_context' # voice_checkin_context =>
              /\ voice_checkin_context' # "none"
              /\ UNCHANGED <<cache, clock, resp,
                   dev>>]_vars

\* an analysis was refused for want of a check-in, over a file that holds
\* predictions
C37_Witness ==
    /\ resp.op = "voice"
    /\ resp.status = 400
    /\ voice_checkin_context = "none"
    /\ DOMAIN cache.predictions # {}

(***************************************************************************)
(* The free-slot sweeps: the window                                        *)
(***************************************************************************)
\* C38: every returned slot lies within the window of its sweep: it
\* starts at or after the window's start and ends at or before its end.
C38_SlotsLieInWindow ==
    sweep.pc = "done" =>
        \A list \in ReturnedLists :
            \A k \in 1..Len(list[1]) :
                list[1][k][1] >= WindowStart /\ list[1][k][2] <= WindowEnd

(***************************************************************************)
(* start_dev.py: the supervisor of the development servers                 *)
(***************************************************************************)
\* check_port(port): something accepts connections on the port
check_port(d, j) == d.existing[j] = "running" \/ d.proc[j] = "running"

\* the body of the loop of cleanup for started_processes[k], then for the
\* entries before it: terminate a process that is still running, wait 5
\* seconds for it, kill it if it has not stopped and wait again
RECURSIVE stop_from(_, _)
stop_from(d, k) ==
    IF k = 0 THEN d
    ELSE LET j == d.started_processes[k]
             after == IF d.proc[j] = "running"
                      THEN [d EXCEPT !.proc[j] = "stopped",
                                     !.terminated = Append(@, j),
                                     !.killed = IF d.hangs[j] THEN @ \cup {j} ELSE @]
                      ELSE d
         IN  stop_from(after, k - 1)

\* cleanup(): for proc in reversed(started_processes): ...; sys.exit(0)
cleanup(d, reason) ==
    [stop_from(d, Len(d.started_processes)) EXCEPT !.pc = "exited", !.cleaned = TRUE,
                                                   !.reason = reason]

\* the loop goes on to the next entry of SERVERS, or is over
next_server(d) ==
    IF d.i = NumServers THEN [d EXCEPT !.pc = "after_loop"]
    ELSE [d EXCEPT !.pc = "check", !.i = @ + 1]

Idle ==
    UNCHANGED <<cache, clock, voice_checkin_context, resp, opt, pr, chain,
                sweep, norm, inflight, oracle_request, scoring>>

\* lines 142-151: a port in use is left alone ("Already running") or, with
\* --force, freed by kill_port
CheckPort ==
    /\ dev.pc = "check"
    /\ dev' = IF check_port(dev, dev.i)
              THEN IF dev.force_restart
                   THEN [dev EXCEPT !.existing[dev.i] = "killed", !.pc = "popen"]
                   ELSE next_server(dev)
              ELSE [dev EXCEPT !.pc = "popen"]
    /\ Idle

\* lines 154-174, 190-195: subprocess.Popen starts the process, or raises
\* and the except clause calls cleanup()
Popen ==
    /\ dev.pc = "popen"
    /\ \E launched \in BOOLEAN :
          dev' = IF launched
                 THEN [dev EXCEPT !.proc[dev.i] = "running", !.pc = "launched"]
                 ELSE cleanup(dev, "start_failure")
    /\ Idle

\* line 175: started_processes.append(proc)
RecordProcess ==
    /\ dev.pc = "launched"
    /\ dev' = [dev EXCEPT !.started_processes = Append(@, dev.i), !.pc = "wait"]
    /\ Idle

\* lines 178-188: wait_for_port; on a timeout the Vite frontend gets a
\* warning and any other server ends the script through cleanup()
WaitForPort ==
    /\ dev.pc = "wait"
    /\ \E ready \in BOOLEAN :
          /\ ready => check_port(dev, dev.i)
          /\ dev' = IF ready \/ dev.i = Vite THEN next_server(dev)
                    ELSE cleanup(dev, "start_failure")
    /\ Idle

\* lines 207-213: nothing was started, so there is nothing to manage
AfterLoop ==
    /\ dev.pc = "after_loop"
    /\ dev' = IF Len(dev.started_processes) = 0 THEN [dev EXCEPT !.pc = "exited"]
              ELSE [dev EXCEPT !.pc = "monitor"]
    /\ Idle

\* lines 216-228: one round of the monitor loop that finds a dead process
Monitor ==
    /\ dev.pc = "monitor"
    /\ \E k \in 1..Len(dev.started_processes) :
          dev.proc[dev.started_processes[k]] = "dead"
    /\ dev' = cleanup(dev, "server_died")
    /\ Idle

\* a launched server exits on its own
ServerDies ==
    /\ dev.pc # "exited"
    /\ \E j \in Servers :
          /\ dev.proc[j] = "running"
          /\ dev' = [dev EXCEPT !.proc[j] = "dead"]
    /\ Idle

\* SIGINT or SIGTERM: the handler installed at lines 118-119 runs between
\* two steps of main, wherever main is
CtrlC ==
    /\ dev.pc # "exited"
    /\ dev' = cleanup(dev, "signal")
    /\ Idle

InitDev ==
    /\ cache = NoCache
    /\ clock = 0
    /\ voice_checkin_context = "none"
    /\ resp = NoResp
    /\ opt = NoOpt
    /\ pr = NoPredict
    /\ chain = NoChain
    /\ sweep = NoSweep
    /\ norm = NoNorm
    /\ inflight = NoInflight
    /\ scoring = NoScoring
    /\ oracle_request = NoRequest
    /\ \E force \in BOOLEAN, inuse \in SUBSET Servers, slow \in SUBSET Servers :
          dev = [NoDev EXCEPT !.pc = "check", !.i = 1, !.force_restart = force,
                     !.existing = [j \in Servers |-> IF j \in inuse THEN "running" ELSE "none"],
                     !.hangs = [j \in Servers |-> j \in slow]]

NextDev ==
    \/ CheckPort
    \/ Popen
    \/ RecordProcess
    \/ WaitForPort
    \/ AfterLoop
    \/ Monitor
    \/ ServerDies
    \/ CtrlC

SpecDev == InitDev /\ [][NextDev]_vars

\* C40: when the script has exited through cleanup, no process that it
\* launched is still running, every process it terminated is one it
\* launched, a server that was found on its port and left alone is still
\* there, the processes were terminated in the reverse of the order in
\* which they were started, and only a process that did not stop on
\* terminate was killed.
C40_CleanupStopsExactlyWhatWasLaunched ==
    (dev.pc = "exited" /\ dev.cleaned) =>
        /\ \A j \in Servers : dev.proc[j] # "running"
        /\ \A k \in 1..Len(dev.terminated) : dev.proc[dev.terminated[k]] = "stopped"
        /\ ~dev.force_restart => \A j \in Servers : dev.existing[j] # "killed"
        /\ \A a, b \in 1..Len(dev.terminated) :
              a < b => dev.terminated[a] > dev.terminated[b]
        /\ dev.killed = {j \in Servers : dev.proc[j] = "stopped" /\ dev.hangs[j]}

====
